---- MODULE Spec2Model ----
(***************************************************************************)
(* State-machine model of the PlusLib OpenIGTLink broadcast server         *)
(* (src/src/PlusServer/vtkPlusOpenIGTLinkServer.cxx): the service          *)
(* start/stop calls, the connection acceptor thread, the data sender       *)
(* thread, the per-client data receiver threads, the two recursive         *)
(* mutexes, the client registry and the message/command response queues.   *)
(*                                                                         *)
(* Time is counted in ticks of 0.1 s.  Every thread is a program counter;  *)
(* a block of code that runs under one PlusLockGuard is one step whose     *)
(* guard is that the mutex is free, except where the order in which the    *)
(* mutexes are taken, or the absence of a guard, is what is looked at:     *)
(* there taking the mutex is a step of its own and mutexHeld records it.   *)
(***************************************************************************)
EXTENDS Integers, Sequences, FiniteSets, TLC

\* ------------------------------------------------------------------ bounds
\* Connections the acceptor takes (client ids 1..MaxClients).
MaxClients == 2
\* Thread instances of one kind (acceptor, sender) that exist at a time.
MaxThreads == 2
\* Command messages one client sends.
MaxCmdMsgs == 13
\* Of these, the messages that are not a command with the next unused UID
\* (a retransmission, a malformed device name, a body that fails to unpack).
MaxOddMsgs == 2
\* The clock stops at MaxTime ticks.
MaxTime == 5
\* Frames the tracked-frame ring buffer of the channel holds.
BufferSize == 3
\* Commands the command processor executes.
MaxCommands == 1
\* Sender cycles that are told apart (the cycle counter saturates here).
MaxCycles == 2
\* The server instances in the process, and the connections each accepts.
MaxServers == 2
MaxAccepts == 3
\* The passive strays one TX reply reports.
MaxStrayObservations == 3
\* The updates of the stray slots that are followed.
MaxUpdates == 2
\* The serial handles the process can hold open at once.
MaxOpenHandles == 2
\* The frame indices a TX reply carries, and the frame numbers followed.
MaxFrameIndex == 3
MaxFrameNumber == 4
\* The updates of the stray slots that are followed when a slot loses its
\* observation and finds one again.
MaxLostUpdates == 3

\* ------------------------------------------------------- program constants
NUMBER_OF_RECENT_COMMAND_IDS_STORED == 10
\* SAMPLING_SKIPPING_MARGIN_SEC = 0.1 s, in ticks.
SAMPLING_SKIPPING_MARGIN == 1
\* OpenIGTLink_PROTOCOL_VERSION of the server (IGTLProtocolVersion).
IGTLProtocolVersion == 3
\* KeepAliveIntervalSec of the configuration, in ticks.
KeepAliveIntervalSec == 2
\* MaxNumberOfIgtlMessagesToSend of the configuration: frames per cycle.
MaxNumberOfIgtlMessagesToSend == 2

ClientIds == 1..MaxClients
ThreadSlots == 1..MaxThreads
NoThread == -1

\* Threads, as the owners of a mutex.
MainThread == <<"main", 0>>
AccThread(i) == <<"acc", i>>
SndThread(i) == <<"snd", i>>
RcvThread(c) == <<"rcv", c>>
Threads ==
  {MainThread} \cup {AccThread(i) : i \in ThreadSlots}
    \cup {SndThread(i) : i \in ThreadSlots} \cup {RcvThread(c) : c \in ClientIds}

VARIABLES
  \* vtkPlusOpenIGTLinkServer members
  ConnectionActive,            \* [first, second]: request / acknowledge
  DataSenderActive,            \* [first, second]
  ConnectionReceiverThreadId,
  DataSenderThreadId,
  DataCollector,               \* TRUE: set, FALSE: NULL
  IgtlClients,                 \* ids of the client records in the list
  ClientIdCounter,
  DataReceiverActive,          \* per client record: [first, second]
  DataReceiverThreadId,        \* per client record
  ClientSocket,                \* per client record: "none", "open", "closed"
  ClientInfo,                  \* per client record: the subscription
  MessageResponseQueue,        \* client id -> messages waiting
  LastSentTrackedFrameTimestamp,
  mutexHeld,                   \* thread -> the mutexes it holds, in the order taken
  \* the threads
  mainPc, mainTodo,
  accPc,
  sndPc, elapsedTimeSinceLastPacketSentSec, startTimeSec, trackedFrameList,
  replies, smrIt, disconnectedClientIds,
  rcvPc, headerMsg, previousCommandIds,
  \* vtkPlusCommandProcessor
  commandQueue, commandResponses,
  \* the surroundings: clock, channel buffer, the peers' sockets
  now, buffer, sockAlive,
  \* history
  wire,                        \* per client: what was sent on its socket
  cmdReceived,                 \* per client: UIDs of the commands received
  oddSent,                     \* per client: messages counted by MaxOddMsgs
  cmdDone,                     \* commands executed: when each completed
  cycle,                       \* sender cycles begun, up to MaxCycles
  serviceState,                \* "constructed", "active", "stopping", "stopped"
  \* the server instances of the process that share ClientIdCounter
  acceptPc,                    \* per instance: where its accept block is
  acceptReg,                   \* per instance: the value read for the increment
  serverClients,               \* per instance: the ClientId of each record, in order
  \* vtkPlusNDITracker: the transform reply of the device and what is published
  txReply,                     \* the TX reply for the tool's port handle, or NoReply
  toolUpdate,                  \* the last ToolTimeStampedUpdate of the tool, or NoUpdate
  \* vtkPlusNDITracker: the stray marker slots
  LastStraysPos,               \* slot -> position
  LastStraysStatus,            \* slot -> "TOOL_OK" / "TOOL_MISSING"
  straysPos,                   \* the observations of the last update
  minMatchedIndex,             \* the result of MatchStrays in the last update
  LastFrameNumber,             \* counts the updates
  LastStraysPosBefore,         \* LastStraysPos as the latest update found it
  \* vtkPlusNDITracker: the connection to the device and the tool ports
  Device,                      \* the ndicapi handle of the member Device, 0 when null
  IsDeviceTracking,            \* 0 or 1
  NdiToolDescriptors,          \* tool -> [PortHandle, PortEnabled]
  Connected,                   \* the last InternalConnect succeeded, no disconnect since
  openHandles,                 \* the serial handles ndiOpen returned and ndiClose has not closed
  openedWhileOpen,             \* an ndiOpen succeeded while another handle was open
  devicePorts,                 \* the device's port handles: handle -> state
  plugged,                     \* the wired tools plugged into the device
  Recording,                   \* the member Recording of the device base class
  ledCall,                     \* the last Beep or SetToolLED call and what it did
  \* vtkPlusNDITracker: the threads that talk to the device
  cmdPc,                       \* per caller of Command: where it is
  pollPc,                      \* where the acquisition thread is in its tick
  UpdateMutex,                 \* the thread that holds UpdateMutex, or Unlocked
  inFlight,                    \* the threads whose command awaits its reply
  enableCall,                  \* the last EnableToolPorts call: tracking at entry, TSTOP/TSTART sent
  \* vtkPlusNDITracker: the port initialisation loop of EnableToolPorts
  pinitPc,                     \* where the loop is
  pinitList,                   \* the handles of the last PHSR:02 not yet sent PINIT
  ntools,                      \* the number of handles of the last PHSR:02
  errnum,                      \* the error of the last PINIT
  lastTick,                    \* the frame numbers of the last polling tick
  LastStraysStatusBefore,      \* LastStraysStatus before the last update
  enqueued,                    \* client id -> the message responses queued for it so far
  deviceCall                   \* the last tracker command of a driver call and the handle it went to

vService == <<ConnectionActive, DataSenderActive, ConnectionReceiverThreadId,
              DataSenderThreadId, DataCollector, serviceState>>
vMain == <<mainPc, mainTodo>>
vRegistry == <<IgtlClients, ClientIdCounter>>
vRecord == <<DataReceiverActive, DataReceiverThreadId, ClientSocket>>
vSender == <<sndPc, elapsedTimeSinceLastPacketSentSec, startTimeSec, trackedFrameList,
             replies, smrIt, disconnectedClientIds, cycle>>
vReceiver == <<rcvPc, headerMsg, previousCommandIds>>
vProcessor == <<commandQueue, commandResponses, cmdDone>>
vCmdHistory == <<cmdReceived, oddSent>>
vChannel == <<now, buffer>>
vInstances == <<acceptPc, acceptReg, serverClients>>
\* What the threads of the one server above never touch.
vToolStatus == <<txReply, toolUpdate>>
vStrays == <<LastStraysPos, LastStraysStatus, straysPos, minMatchedIndex, LastFrameNumber,
            LastStraysPosBefore>>
vDriver == <<Device, IsDeviceTracking, NdiToolDescriptors, Connected, openHandles,
            openedWhileOpen, devicePorts, plugged, Recording>>
vLocking == <<cmdPc, pollPc, UpdateMutex, inFlight>>
vPinit == <<pinitPc, pinitList, ntools, errnum>>
vAfterPinit == <<lastTick, LastStraysStatusBefore>>
vHistory == <<deviceCall>>
vLater == <<vPinit, vAfterPinit, enqueued, vHistory>>
vCalls == <<ledCall, vLocking, enableCall, vLater>>
vTracker == <<vToolStatus, vStrays, vDriver, vCalls>>
vRest == <<vInstances, vTracker>>

vars == <<vService, vMain, accPc, vRegistry, vRecord, ClientInfo, MessageResponseQueue,
          LastSentTrackedFrameTimestamp, mutexHeld, vSender, vReceiver, vProcessor,
          vCmdHistory, vChannel, sockAlive, wire, vRest>>

\* ----------------------------------------------------------------- helpers
Range(s) == {s[i] : i \in 1..Len(s)}
Last(s) == s[Len(s)]
Min(a, b) == IF a < b THEN a ELSE b
Max(a, b) == IF a > b THEN a ELSE b
SetMax(S) == CHOOSE x \in S : \A y \in S : y <= x
SetMin(S) == CHOOSE x \in S : \A y \in S : x <= y
\* The last n elements of s.
LastN(s, n) == SubSeq(s, Max(1, Len(s) - n + 1), Len(s))
\* The elements of set S in increasing order.
RECURSIVE SortedSeq(_)
SortedSeq(S) == IF S = {} THEN <<>> ELSE <<SetMin(S)>> \o SortedSeq(S \ {SetMin(S)})

\* ----------------------------------------------------------------- mutexes
ClientsMutex == "IgtlClientsMutex"
QueueMutex == "MessageResponseQueueMutex"

\* PlusLockGuard on a vtkPlusRecursiveCriticalSection: thread t can take
\* mutex m when no other thread holds it.
MutexFree(t, m) == \A u \in Threads : u # t => m \notin Range(mutexHeld[u])
Holds(t, m) == m \in Range(mutexHeld[t])
Lock(t, m) == MutexFree(t, m) /\ mutexHeld' = [mutexHeld EXCEPT ![t] = Append(@, m)]
Unlock(t) == mutexHeld' = [mutexHeld EXCEPT ![t] = SubSeq(@, 1, Len(@) - 1)]

\* ------------------------------------------------------------ client record
DefaultClientInfo ==
  [Subscription |-> "default", TDATARequested |-> FALSE, Resolution |-> 0,
   ClientHeaderVersion |-> 1, LastTDATASentTimeStamp |-> 0]
NoHeader == [type |-> "NONE", hv |-> 1, ok |-> TRUE, text |-> <<>>, num |-> 0]

\* The thread ids vtkMultiThreader::SpawnThread hands out: the acceptor is
\* the first thread the server spawns, so every later id is above 0.
AcceptorThreadId == 0
SenderThreadId == 1
ReceiverThreadId(c) == 1 + c

\* -------------------------------------------------------------------- Init
\* No server instance is inside its accept block.
InitInstances ==
  /\ acceptPc = [s \in 1..MaxServers |-> "wait"]
  /\ acceptReg = [s \in 1..MaxServers |-> 0]
  /\ serverClients = [s \in 1..MaxServers |-> <<>>]
\* The tracker before its first update.
NoReply == [status |-> {}, absent |-> FALSE, valid |-> FALSE]
NoUpdate == [status |-> {}, absent |-> FALSE, toolFlags |-> "none"]
InitToolStatus ==
  /\ txReply = NoReply
  /\ toolUpdate = NoUpdate
\* ReadConfiguration, lines 1041-1050: MaxNumberOfStrays slots at the zero
\* vector, all missing.
MaxNumberOfStrays == 3
StraySlots == 1..MaxNumberOfStrays
ZeroVector == <<0, 0, 0>>
InitStrays ==
  /\ LastStraysPos = [i \in StraySlots |-> ZeroVector]
  /\ LastStraysStatus = [i \in StraySlots |-> "TOOL_MISSING"]
  /\ straysPos = <<>>
  /\ minMatchedIndex = <<>>
  /\ LastFrameNumber = 0
  /\ LastStraysPosBefore = [i \in StraySlots |-> ZeroVector]
\* The tools of the configuration (ReadConfiguration, lines 1084-1112): a
\* wired tool without ROM file, a wired tool with one and a wireless tool.
\* NdiToolDescriptors is a std::map, visited in the order of the tool ids.
Tools == {"wired", "wiredRom", "wireless"}
ToolOrder == <<"wired", "wiredRom", "wireless">>
\* Line 1097 and ReadSromFromFile, lines 591-597.
VirtualSROM(t) == t \in {"wiredRom", "wireless"}
\* Lines 1084-1098: -1 without a PortName.
WiredPortNumber(t) == IF t = "wired" THEN 0 ELSE IF t = "wiredRom" THEN 1 ELSE -1
\* The wired tools that can be plugged in: the two of the configuration
\* and one the configuration does not name.
WiredTools == {"wired", "wiredRom", "other"}
\* The handles of the device: one for each wired port, two that PHRQ hands out.
WiredHandle(t) == IF t = "wired" THEN 1 ELSE IF t = "wiredRom" THEN 2 ELSE 5
PhrqHandles == {3, 4}
PortHandles == {WiredHandle(t) : t \in WiredTools} \cup PhrqHandles
\* The constructor (lines 77-85) and ReadConfiguration (lines 1094-1097).
InitDriver ==
  /\ Device = 0
  /\ IsDeviceTracking = 0
  /\ NdiToolDescriptors = [t \in Tools |-> [PortHandle |-> 0, PortEnabled |-> FALSE]]
  /\ Connected = FALSE
  /\ openHandles = {}
  /\ openedWhileOpen = FALSE
  /\ devicePorts = [h \in PortHandles |-> "free"]
  /\ plugged = {}
  /\ Recording = FALSE
NoCall == [call |-> "none", recording |-> FALSE, status |-> "none", command |-> <<>>]
\* The threads that call Command, and the acquisition thread.
CommandCallers == {"caller1", "caller2"}
PollingThread == "acquisition"
Unlocked == "unlocked"
InitLocking ==
  /\ cmdPc = [t \in CommandCallers |-> "idle"]
  /\ pollPc = "idle"
  /\ UpdateMutex = Unlocked
  /\ inFlight = {}
NoEnableCall == [tracking |-> 0, commands |-> <<>>, status |-> "none"]
InitPinit ==
  /\ pinitPc = "idle"
  /\ pinitList = <<>>
  /\ ntools = 0
  /\ errnum = 0
\* No polling tick has published frame numbers yet.
NoTick == [ticked |-> FALSE, reply |-> <<>>, published |-> <<>>, before |-> 0, seen |-> 0]
\* No driver call has sent a tracker command yet.
NoDeviceCall == [command |-> "none", handle |-> 0]
InitCalls ==
  /\ ledCall = NoCall /\ InitLocking /\ enableCall = NoEnableCall /\ InitPinit
  /\ lastTick = NoTick
  /\ LastStraysStatusBefore = [i \in StraySlots |-> "TOOL_MISSING"]
  /\ enqueued = [c \in ClientIds |-> <<>>]
  /\ deviceCall = NoDeviceCall
InitTracker == InitToolStatus /\ InitStrays /\ InitDriver /\ InitCalls
InitRest == InitInstances /\ InitTracker
\* The state the constructor leaves (lines 68-103), before Start.
InitConstructed ==
  /\ ConnectionActive = [first |-> FALSE, second |-> FALSE]
  /\ DataSenderActive = [first |-> FALSE, second |-> FALSE]
  /\ ConnectionReceiverThreadId = NoThread
  /\ DataSenderThreadId = NoThread
  /\ DataCollector = FALSE
  /\ IgtlClients = {}
  /\ ClientIdCounter = 1
  /\ DataReceiverActive = [c \in ClientIds |-> [first |-> FALSE, second |-> FALSE]]
  /\ DataReceiverThreadId = [c \in ClientIds |-> NoThread]
  /\ ClientSocket = [c \in ClientIds |-> "none"]
  /\ ClientInfo = [c \in ClientIds |-> DefaultClientInfo]
  /\ MessageResponseQueue = [c \in ClientIds |-> <<>>]
  /\ LastSentTrackedFrameTimestamp = 0
  /\ mutexHeld = [t \in Threads |-> <<>>]
  /\ mainPc = "idle"
  /\ mainTodo = <<>>
  /\ accPc = [i \in ThreadSlots |-> "none"]
  /\ sndPc = [i \in ThreadSlots |-> "none"]
  /\ elapsedTimeSinceLastPacketSentSec = 0
  /\ startTimeSec = 0
  /\ trackedFrameList = <<>>
  /\ replies = <<>>
  /\ smrIt = 0
  /\ disconnectedClientIds = <<>>
  /\ rcvPc = [c \in ClientIds |-> "none"]
  /\ headerMsg = [c \in ClientIds |-> NoHeader]
  /\ previousCommandIds = [c \in ClientIds |-> <<>>]
  /\ commandQueue = <<>>
  /\ commandResponses = <<>>
  /\ now = 0
  /\ buffer = <<>>
  /\ sockAlive = [c \in ClientIds |-> TRUE]
  /\ wire = [c \in ClientIds |-> <<>>]
  /\ cmdReceived = [c \in ClientIds |-> <<>>]
  /\ oddSent = [c \in ClientIds |-> 0]
  /\ cmdDone = <<>>
  /\ cycle = 0
  /\ serviceState = "constructed"
  /\ InitRest

\* The service after Start: the acceptor and the sender are in their loops
\* and the acceptor has taken the connections of the clients 1..n, whose
\* receiver threads are in their loops.
InitServing(n) ==
  /\ ConnectionActive = [first |-> TRUE, second |-> TRUE]
  /\ DataSenderActive = [first |-> TRUE, second |-> TRUE]
  /\ ConnectionReceiverThreadId = AcceptorThreadId
  /\ DataSenderThreadId = SenderThreadId
  /\ DataCollector = TRUE
  /\ IgtlClients = 1..n
  /\ ClientIdCounter = n + 1
  /\ DataReceiverActive =
       [c \in ClientIds |-> [first |-> c <= n, second |-> c <= n]]
  /\ DataReceiverThreadId =
       [c \in ClientIds |-> IF c <= n THEN ReceiverThreadId(c) ELSE NoThread]
  /\ ClientSocket = [c \in ClientIds |-> IF c <= n THEN "open" ELSE "none"]
  /\ ClientInfo = [c \in ClientIds |-> DefaultClientInfo]
  /\ MessageResponseQueue = [c \in ClientIds |-> <<>>]
  /\ LastSentTrackedFrameTimestamp = 0
  /\ mutexHeld = [t \in Threads |-> <<>>]
  /\ mainPc = "idle"
  /\ mainTodo = <<>>
  /\ accPc = [i \in ThreadSlots |-> IF i = 1 THEN "loop" ELSE "none"]
  /\ sndPc = [i \in ThreadSlots |-> IF i = 1 THEN "loop" ELSE "none"]
  /\ elapsedTimeSinceLastPacketSentSec = 0
  /\ startTimeSec = 0
  /\ trackedFrameList = <<>>
  /\ replies = <<>>
  /\ smrIt = 0
  /\ disconnectedClientIds = <<>>
  /\ rcvPc = [c \in ClientIds |-> IF c <= n THEN "loop" ELSE "none"]
  /\ headerMsg = [c \in ClientIds |-> NoHeader]
  /\ previousCommandIds = [c \in ClientIds |-> <<>>]
  /\ commandQueue = <<>>
  /\ commandResponses = <<>>
  /\ now = 0
  /\ buffer = <<>>
  /\ sockAlive = [c \in ClientIds |-> TRUE]
  /\ wire = [c \in ClientIds |-> <<>>]
  /\ cmdReceived = [c \in ClientIds |-> <<>>]
  /\ oddSent = [c \in ClientIds |-> 0]
  /\ cmdDone = <<>>
  /\ cycle = 0
  /\ serviceState = "active"
  /\ InitRest

\* ----------------------------------------------- data receiver thread (1)
\* std::stoi on the text that follows "CMD_" in the device name
\* (vtkPlusCommand::GetUidFromCommandDeviceName): the value of the leading
\* decimal digits; std::invalid_argument when there is none.  A character
\* is a number: 0..9 the digits, 10 any other character.
InvalidArgument == -1
IsDigit(ch) == ch \in 0..9
RECURSIVE StoiDigits(_, _)
StoiDigits(s, acc) ==
  IF s = <<>> \/ ~IsDigit(Head(s)) THEN acc ELSE StoiDigits(Tail(s), acc * 10 + Head(s))
Stoi(s) == IF s = <<>> \/ ~IsDigit(Head(s)) THEN InvalidArgument ELSE StoiDigits(s, 0)
\* The decimal text of n, as a client writes it into the device name.
RECURSIVE Digits(_)
Digits(n) == IF n < 10 THEN <<n>> ELSE Append(Digits(n \div 10), n % 10)

\* std::find(previousCommandIds.begin(), previousCommandIds.end(), uid) != end
IsRepeatedCommandId(ids, uid) == uid \in Range(ids)

\* A variant of RememberCommandId: the deque is cut when it reaches the limit.
RememberCommandIdCutEarly(ids, uid) ==
  LET pushed == Append(ids, uid)
  IN  IF Len(pushed) >= NUMBER_OF_RECENT_COMMAND_IDS_STORED THEN Tail(pushed) ELSE pushed
\* previousCommandIds.push_back(uid); pop_front() when over the limit.
RememberCommandId(ids, uid) ==
  LET pushed == Append(ids, uid)
  IN  IF Len(pushed) > NUMBER_OF_RECENT_COMMAND_IDS_STORED THEN Tail(pushed) ELSE pushed

StringHeader(text, ok) ==
  [type |-> "STRING", hv |-> 1, ok |-> ok, text |-> text, num |-> 0]
CommandHeader(uid, ok) ==
  [type |-> "COMMAND", hv |-> 2, ok |-> ok, text |-> <<>>, num |-> uid]
PlainHeader(type, ok, num) ==
  [type |-> type, hv |-> 1, ok |-> ok, text |-> <<>>, num |-> num]

\* The command messages a client sends.  It numbers its commands 1, 2, ...;
\* the command with an odd UID goes out as a legacy STRING on device
\* CMD_<uid>, the one with an even UID as a v3 COMMAND.  Up to MaxOddMsgs
\* times it sends something else: its first or its latest UID again (in
\* either form, the legacy one also with a leading zero), a device name with
\* no number, or a body that does not unpack.
NextUid(c) == IF cmdReceived[c] = <<>> THEN 1 ELSE SetMax(Range(cmdReceived[c])) + 1
FreshCommand(c) ==
  IF NextUid(c) % 2 = 1 THEN StringHeader(Digits(NextUid(c)), TRUE)
  ELSE CommandHeader(NextUid(c), TRUE)
OddCommands(c) ==
  LET again == IF cmdReceived[c] = <<>> THEN {}
               ELSE {Head(cmdReceived[c]), Last(cmdReceived[c])}
  IN  {StringHeader(Digits(u), TRUE) : u \in again}
        \cup {StringHeader(<<0>> \o Digits(u), TRUE) : u \in again}
        \cup {CommandHeader(u, TRUE) : u \in again}
        \cup {StringHeader(<<10>>, TRUE), StringHeader(Digits(NextUid(c)), FALSE),
              CommandHeader(NextUid(c), FALSE)}
CommandInputs(c) ==
  IF NextUid(c) - 1 + oddSent[c] >= MaxCmdMsgs THEN {}
  ELSE {FreshCommand(c)} \cup (IF oddSent[c] < MaxOddMsgs THEN OddCommands(c) ELSE {})
IsCommandHeader(m) == m.type \in {"STRING", "COMMAND"}

\* Thread entry (lines 535-548): the thread announces itself.  The record
\* it was given may already have been erased from the list.
ReceiverStart(c) ==
  /\ rcvPc[c] = "spawned"
  /\ IF c \in IgtlClients
     THEN /\ DataReceiverActive' = [DataReceiverActive EXCEPT ![c].second = TRUE]
          /\ rcvPc' = [rcvPc EXCEPT ![c] = "loop"]
     ELSE /\ rcvPc' = [rcvPc EXCEPT ![c] = "dangling"]
          /\ UNCHANGED DataReceiverActive
  /\ UNCHANGED <<vService, vMain, accPc, vRegistry, DataReceiverThreadId, ClientSocket,
                 ClientInfo, MessageResponseQueue, LastSentTrackedFrameTimestamp,
                 mutexHeld, vSender, headerMsg, previousCommandIds, vProcessor,
                 vCmdHistory, vChannel, sockAlive, wire>>
  /\ UNCHANGED vRest

\* A variant of ReceiverLoop: the receiver thread gives its client up, takes
\* the record off the list and closes the socket.
ReceiverLoopDroppingClient(c, msg) ==
  /\ rcvPc[c] = "loop"
  /\ rcvPc' = [rcvPc EXCEPT ![c] = "exit"]
  /\ IgtlClients' = IgtlClients \ {c}
  /\ ClientSocket' = [ClientSocket EXCEPT ![c] = "closed"]
  /\ UNCHANGED <<vService, vMain, accPc, ClientIdCounter, DataReceiverActive,
                 DataReceiverThreadId, ClientInfo, MessageResponseQueue,
                 LastSentTrackedFrameTimestamp, mutexHeld, vSender, headerMsg,
                 previousCommandIds, vProcessor, vCmdHistory, vChannel, sockAlive, wire>>
  /\ UNCHANGED vRest
\* Loop head and header receive (lines 550-562).  msg is what the socket
\* delivers within the receive timeout: NoHeader when the read is short or
\* empty (100 ms sleep, retry).
ReceiverLoop(c, msg) ==
  /\ rcvPc[c] = "loop"
  /\ IF ~DataReceiverActive[c].first
     THEN /\ rcvPc' = [rcvPc EXCEPT ![c] = "exit"]
          /\ UNCHANGED <<headerMsg, oddSent>>
     ELSE IF msg.type = "NONE"
     THEN UNCHANGED <<rcvPc, headerMsg, oddSent>>
     ELSE /\ rcvPc' = [rcvPc EXCEPT ![c] = "hdr"]
          /\ headerMsg' = [headerMsg EXCEPT ![c] = msg]
          /\ oddSent' = [oddSent EXCEPT ![c] =
                           IF msg # FreshCommand(c) THEN @ + 1 ELSE @]
  /\ UNCHANGED <<vService, vMain, accPc, vRegistry, vRecord, ClientInfo,
                 MessageResponseQueue, LastSentTrackedFrameTimestamp, mutexHeld, vSender,
                 previousCommandIds, vProcessor, cmdReceived, vChannel, sockAlive, wire>>
  /\ UNCHANGED vRest

\* Lines 564-565: the lock guard around the header-version write.
ReceiverLockForVersion(c) ==
  /\ rcvPc[c] = "hdr"
  /\ Lock(RcvThread(c), ClientsMutex)
  /\ rcvPc' = [rcvPc EXCEPT ![c] = "hdr_locked"]
  /\ UNCHANGED <<vService, vMain, accPc, vRegistry, vRecord, ClientInfo,
                 MessageResponseQueue, LastSentTrackedFrameTimestamp, vSender, headerMsg,
                 previousCommandIds, vProcessor, vCmdHistory, vChannel, sockAlive, wire>>
  /\ UNCHANGED vRest

\* Lines 566-574: the negotiated header version is written, the guard ends,
\* and the factory creates the body message (NULL for a type it does not
\* know: back to the loop head).
ReceiverSetVersion(c) ==
  /\ rcvPc[c] = "hdr_locked"
  /\ ClientInfo' = [ClientInfo EXCEPT
                      ![c].ClientHeaderVersion = Min(IGTLProtocolVersion, headerMsg[c].hv)]
  /\ Unlock(RcvThread(c))
  /\ rcvPc' = [rcvPc EXCEPT ![c] = IF headerMsg[c].type = "NOT_IN_FACTORY" THEN "loop" ELSE "body"]
  /\ UNCHANGED <<vService, vMain, accPc, vRegistry, vRecord, MessageResponseQueue,
                 LastSentTrackedFrameTimestamp, vSender, headerMsg, previousCommandIds,
                 vProcessor, vCmdHistory, vChannel, sockAlive, wire>>
  /\ UNCHANGED vRest

\* What the two command branches share once the UID is known (lines 642-660
\* and 679-695): a UID found in previousCommandIds is ignored, any other is
\* remembered and the command queued in the command processor.
AcceptCommand(c, isV3, uid) ==
  /\ cmdReceived' = [cmdReceived EXCEPT ![c] = Append(@, uid)]
  /\ IF IsRepeatedCommandId(previousCommandIds[c], uid)
     THEN UNCHANGED <<previousCommandIds, commandQueue>>
     ELSE /\ previousCommandIds' =
               [previousCommandIds EXCEPT ![c] = RememberCommandId(@, uid)]
          /\ commandQueue' =
               Append(commandQueue, [isV3 |-> isV3, clientId |-> c, uid |-> uid])

\* Legacy command: a STRING whose device name is a command device name
\* (lines 603-663).  The text has no sign, so the int std::stoi returns is
\* the uint32_t uid as it stands.  QueueStringResponse carries no client id.
HandleStringCommand(c) ==
  /\ rcvPc[c] = "body"
  /\ headerMsg[c].type = "STRING"
  /\ rcvPc' = [rcvPc EXCEPT ![c] = "loop"]
  /\ IF ~headerMsg[c].ok
     THEN UNCHANGED <<previousCommandIds, commandQueue, commandResponses, cmdReceived>>
     ELSE IF Stoi(headerMsg[c].text) = InvalidArgument
     THEN /\ commandResponses' =
               Append(commandResponses, [clientId |-> 0, uid |-> 0, kind |-> "STRING_FAIL"])
          /\ UNCHANGED <<previousCommandIds, commandQueue, cmdReceived>>
     ELSE /\ AcceptCommand(c, FALSE, Stoi(headerMsg[c].text))
          /\ UNCHANGED commandResponses
  /\ UNCHANGED <<vService, vMain, accPc, vRegistry, vRecord, ClientInfo,
                 MessageResponseQueue, LastSentTrackedFrameTimestamp, mutexHeld, vSender,
                 headerMsg, cmdDone, oddSent, vChannel, sockAlive, wire>>
  /\ UNCHANGED vRest

\* v3 command message (lines 664-701).
HandleCommand(c) ==
  /\ rcvPc[c] = "body"
  /\ headerMsg[c].type = "COMMAND"
  /\ rcvPc' = [rcvPc EXCEPT ![c] = "loop"]
  /\ IF ~headerMsg[c].ok
     THEN UNCHANGED <<previousCommandIds, commandQueue, cmdReceived>>
     ELSE AcceptCommand(c, TRUE, headerMsg[c].num)
  /\ UNCHANGED <<vService, vMain, accPc, vRegistry, vRecord, ClientInfo,
                 MessageResponseQueue, LastSentTrackedFrameTimestamp, mutexHeld, vSender,
                 headerMsg, commandResponses, cmdDone, oddSent, vChannel, sockAlive, wire>>
  /\ UNCHANGED vRest

\* ------------------------------------------------------ DisconnectClient
\* The three guarded blocks of DisconnectClient(clientId), lines 903-981,
\* as what each does to the client records.
\* Lines 906-918: request the receiver thread to stop.
DisconnectRequest(clientId) ==
  /\ DataReceiverActive' =
       [c \in ClientIds |->
          IF c = clientId /\ c \in IgtlClients
          THEN [DataReceiverActive[c] EXCEPT !.first = FALSE] ELSE DataReceiverActive[c]]
  /\ UNCHANGED <<vRegistry, DataReceiverThreadId, ClientSocket>>
\* Lines 925-949, one pass of the do-while: TRUE when the receiver thread
\* still counts as running, and the pass is repeated after 200 ms.
ReceiverThreadStillActive(clientId) ==
  /\ clientId \in IgtlClients
  /\ DataReceiverThreadId[clientId] > 0
  /\ DataReceiverActive[clientId].second
\* The last pass: the thread id of a stopped thread is cleared.
DisconnectWaitDone(clientId) ==
  /\ ~ReceiverThreadStillActive(clientId)
  /\ DataReceiverThreadId' =
       [c \in ClientIds |->
          IF c = clientId /\ c \in IgtlClients /\ DataReceiverThreadId[c] > 0
          THEN NoThread ELSE DataReceiverThreadId[c]]
  /\ UNCHANGED <<vRegistry, DataReceiverActive, ClientSocket>>
\* igtl::ClientSocket::CloseSocket (line 974) on a socket in state s; a
\* second close of the same socket is told apart from the first.
CloseSocket(s) == IF s = "open" THEN "closed" ELSE "closed_twice"
\* A variant of DisconnectErase: the socket of the record is closed and the
\* record is left in the list.
DisconnectCloseKeepRecord(clientId) ==
  /\ ClientSocket' =
       [c \in ClientIds |->
          IF c = clientId /\ c \in IgtlClients /\ ClientSocket[c] # "none"
          THEN CloseSocket(ClientSocket[c]) ELSE ClientSocket[c]]
  /\ UNCHANGED <<IgtlClients, ClientIdCounter, DataReceiverActive, DataReceiverThreadId>>
\* Lines 958-979: close the socket and erase the record.
DisconnectErase(clientId) ==
  /\ IgtlClients' = IgtlClients \ {clientId}
  /\ ClientSocket' =
       [c \in ClientIds |->
          IF c = clientId /\ c \in IgtlClients /\ ClientSocket[c] # "none"
          THEN CloseSocket(ClientSocket[c]) ELSE ClientSocket[c]]
  /\ UNCHANGED <<ClientIdCounter, DataReceiverActive, DataReceiverThreadId>>

\* --------------------------------------------------- the calling thread
\* vtkMultiThreader::SpawnThread: the new thread gets an unused slot.
FreeSlots(pcs) == {i \in ThreadSlots : pcs[i] \in {"none", "done"}}

\* Start (lines 1130-1153) up to the acceptor part of
\* StartOpenIGTLinkService (lines 151-161).
StartAcceptor ==
  /\ mainPc = "idle"
  /\ serviceState # "active"
  /\ DataCollector' = TRUE
  /\ IF ConnectionReceiverThreadId < 0
     THEN /\ FreeSlots(accPc) # {}
          /\ ConnectionActive' = [ConnectionActive EXCEPT !.first = TRUE]
          /\ ConnectionReceiverThreadId' = AcceptorThreadId
          /\ accPc' = [accPc EXCEPT ![SetMin(FreeSlots(accPc))] = "spawned"]
     ELSE UNCHANGED <<ConnectionActive, ConnectionReceiverThreadId, accPc>>
  /\ mainPc' = "start_sender"
  /\ UNCHANGED <<DataSenderActive, DataSenderThreadId, serviceState, mainTodo, vRegistry,
                 vRecord, ClientInfo, MessageResponseQueue, LastSentTrackedFrameTimestamp,
                 mutexHeld, vSender, vReceiver, vProcessor, vCmdHistory, vChannel,
                 sockAlive, wire>>
  /\ UNCHANGED vRest

\* The sender part of StartOpenIGTLinkService (lines 163-178).
StartSender ==
  /\ mainPc = "start_sender"
  /\ IF DataSenderThreadId < 0
     THEN /\ FreeSlots(sndPc) # {}
          /\ DataSenderActive' = [DataSenderActive EXCEPT !.first = TRUE]
          /\ DataSenderThreadId' = SenderThreadId
          /\ sndPc' = [sndPc EXCEPT ![SetMin(FreeSlots(sndPc))] = "spawned"]
     ELSE UNCHANGED <<DataSenderActive, DataSenderThreadId, sndPc>>
  /\ serviceState' = "active"
  /\ mainPc' = "idle"
  /\ UNCHANGED <<ConnectionActive, ConnectionReceiverThreadId, DataCollector, mainTodo,
                 accPc, vRegistry, vRecord, ClientInfo, MessageResponseQueue,
                 LastSentTrackedFrameTimestamp, mutexHeld, elapsedTimeSinceLastPacketSentSec,
                 startTimeSec, trackedFrameList, replies, smrIt, disconnectedClientIds,
                 cycle, vReceiver, vProcessor, vCmdHistory, vChannel, sockAlive, wire>>
  /\ UNCHANGED vRest

\* Stop calls StopOpenIGTLinkService, which asks the acceptor to stop
\* (lines 185-187).
StopRequest ==
  /\ mainPc = "idle"
  /\ serviceState = "active"
  /\ serviceState' = "stopping"
  /\ IF ConnectionReceiverThreadId >= 0
     THEN /\ ConnectionActive' = [ConnectionActive EXCEPT !.first = FALSE]
          /\ mainPc' = "stop_wait"
     ELSE /\ mainPc' = "stop_collect"
          /\ UNCHANGED ConnectionActive
  /\ UNCHANGED <<DataSenderActive, ConnectionReceiverThreadId, DataSenderThreadId,
                 DataCollector, mainTodo, accPc, vRegistry, vRecord, ClientInfo,
                 MessageResponseQueue, LastSentTrackedFrameTimestamp, mutexHeld, vSender,
                 vReceiver, vProcessor, vCmdHistory, vChannel, sockAlive, wire>>
  /\ UNCHANGED vRest

\* Lines 188-194: the wait loop ends when the acceptor's acknowledge flag is
\* false.
StopWaitAcceptor ==
  /\ mainPc = "stop_wait"
  /\ ~ConnectionActive.second
  /\ ConnectionReceiverThreadId' = NoThread
  /\ mainPc' = "stop_collect"
  /\ UNCHANGED <<ConnectionActive, DataSenderActive, DataSenderThreadId, DataCollector,
                 serviceState, mainTodo, accPc, vRegistry, vRecord, ClientInfo,
                 MessageResponseQueue, LastSentTrackedFrameTimestamp, mutexHeld, vSender,
                 vReceiver, vProcessor, vCmdHistory, vChannel, sockAlive, wire>>
  /\ UNCHANGED vRest

\* Lines 198-206: the ids of the clients, read under the clients mutex.
StopCollectClients ==
  /\ mainPc = "stop_collect"
  /\ MutexFree(MainThread, ClientsMutex)
  /\ mainTodo' = SortedSeq(IgtlClients)
  /\ mainPc' = IF IgtlClients = {} THEN "stop_return" ELSE "dc_request"
  /\ UNCHANGED <<vService, accPc, vRegistry, vRecord, ClientInfo, MessageResponseQueue,
                 LastSentTrackedFrameTimestamp, mutexHeld, vSender, vReceiver, vProcessor,
                 vCmdHistory, vChannel, sockAlive, wire>>
  /\ UNCHANGED vRest

\* Lines 207-210: DisconnectClient for each id, block by block.
StopDisconnectRequest ==
  /\ mainPc = "dc_request"
  /\ MutexFree(MainThread, ClientsMutex)
  /\ DisconnectRequest(Head(mainTodo))
  /\ mainPc' = "dc_wait"
  /\ UNCHANGED <<vService, mainTodo, accPc, ClientInfo, MessageResponseQueue,
                 LastSentTrackedFrameTimestamp, mutexHeld, vSender, vReceiver, vProcessor,
                 vCmdHistory, vChannel, sockAlive, wire>>
  /\ UNCHANGED vRest

StopDisconnectWait ==
  /\ mainPc = "dc_wait"
  /\ MutexFree(MainThread, ClientsMutex)
  /\ DisconnectWaitDone(Head(mainTodo))
  /\ mainPc' = "dc_erase"
  /\ UNCHANGED <<vService, mainTodo, accPc, ClientInfo, MessageResponseQueue,
                 LastSentTrackedFrameTimestamp, mutexHeld, vSender, vReceiver, vProcessor,
                 vCmdHistory, vChannel, sockAlive, wire>>
  /\ UNCHANGED vRest

StopDisconnectErase ==
  /\ mainPc = "dc_erase"
  /\ MutexFree(MainThread, ClientsMutex)
  /\ DisconnectErase(Head(mainTodo))
  /\ mainTodo' = Tail(mainTodo)
  /\ mainPc' = IF Tail(mainTodo) = <<>> THEN "stop_return" ELSE "dc_request"
  /\ UNCHANGED <<vService, accPc, ClientInfo, MessageResponseQueue,
                 LastSentTrackedFrameTimestamp, mutexHeld, vSender, vReceiver, vProcessor,
                 vCmdHistory, vChannel, sockAlive, wire>>
  /\ UNCHANGED vRest

\* StopOpenIGTLinkService returns (line 214) and Stop clears the data
\* collector and the transform repository (lines 1165-1169).
StopReturn ==
  /\ mainPc = "stop_return"
  /\ DataCollector' = FALSE
  /\ serviceState' = "stopped"
  /\ mainPc' = "idle"
  /\ UNCHANGED <<ConnectionActive, DataSenderActive, ConnectionReceiverThreadId,
                 DataSenderThreadId, mainTodo, accPc, vRegistry, vRecord, ClientInfo,
                 MessageResponseQueue, LastSentTrackedFrameTimestamp, mutexHeld, vSender,
                 vReceiver, vProcessor, vCmdHistory, vChannel, sockAlive, wire>>
  /\ UNCHANGED vRest

\* ------------------------------------------- connection receiver thread
\* The listening port is free: CreateServer does not fail.
ListeningPortFree == TRUE

\* Thread entry, lines 218-231.
AcceptorStart(i) ==
  /\ accPc[i] = "spawned"
  /\ IF ListeningPortFree
     THEN /\ ConnectionActive' = [ConnectionActive EXCEPT !.second = TRUE]
          /\ accPc' = [accPc EXCEPT ![i] = "loop"]
     ELSE /\ accPc' = [accPc EXCEPT ![i] = "done"]
          /\ UNCHANGED ConnectionActive
  /\ UNCHANGED <<DataSenderActive, ConnectionReceiverThreadId, DataSenderThreadId,
                 DataCollector, serviceState, vMain, vRegistry, vRecord, ClientInfo,
                 MessageResponseQueue, LastSentTrackedFrameTimestamp, mutexHeld, vSender,
                 vReceiver, vProcessor, vCmdHistory, vChannel, sockAlive, wire>>
  /\ UNCHANGED vRest

\* One pass of the accept loop, lines 234-263.  connected: WaitForConnection
\* returned a socket before its 500 ms timeout.  The record is appended, set
\* up and its receiver thread spawned under the clients mutex.
AcceptorLoop(i, connected) ==
  /\ accPc[i] = "loop"
  /\ IF ~ConnectionActive.first
     THEN /\ accPc' = [accPc EXCEPT ![i] = "exit"]
          /\ UNCHANGED <<vRegistry, vRecord, ClientInfo, rcvPc>>
     ELSE IF ~connected
     THEN UNCHANGED <<accPc, vRegistry, vRecord, ClientInfo, rcvPc>>
     ELSE /\ ClientIdCounter <= MaxClients
          /\ MutexFree(AccThread(i), ClientsMutex)
          /\ IgtlClients' = IgtlClients \cup {ClientIdCounter}
          /\ ClientIdCounter' = ClientIdCounter + 1
          /\ ClientSocket' = [ClientSocket EXCEPT ![ClientIdCounter] = "open"]
          /\ ClientInfo' = [ClientInfo EXCEPT ![ClientIdCounter] = DefaultClientInfo]
          /\ DataReceiverActive' =
               [DataReceiverActive EXCEPT ![ClientIdCounter] = [first |-> TRUE, second |-> FALSE]]
          /\ DataReceiverThreadId' =
               [DataReceiverThreadId EXCEPT ![ClientIdCounter] = ReceiverThreadId(ClientIdCounter)]
          /\ rcvPc' = [rcvPc EXCEPT ![ClientIdCounter] = "spawned"]
          /\ UNCHANGED accPc
  /\ UNCHANGED <<vService, vMain, MessageResponseQueue, LastSentTrackedFrameTimestamp,
                 mutexHeld, vSender, headerMsg, previousCommandIds, vProcessor, vCmdHistory,
                 vChannel, sockAlive, wire>>
  /\ UNCHANGED vRest

\* Lines 265-272: the server socket is closed and the thread id cleared.
AcceptorExit(i) ==
  /\ accPc[i] = "exit"
  /\ ConnectionReceiverThreadId' = NoThread
  /\ accPc' = [accPc EXCEPT ![i] = "ack"]
  /\ UNCHANGED <<ConnectionActive, DataSenderActive, DataSenderThreadId, DataCollector,
                 serviceState, vMain, vRegistry, vRecord, ClientInfo, MessageResponseQueue,
                 LastSentTrackedFrameTimestamp, mutexHeld, vSender, vReceiver, vProcessor,
                 vCmdHistory, vChannel, sockAlive, wire>>
  /\ UNCHANGED vRest

\* Line 273: the acknowledge flag is cleared and the thread returns.
AcceptorAcknowledge(i) ==
  /\ accPc[i] = "ack"
  /\ ConnectionActive' = [ConnectionActive EXCEPT !.second = FALSE]
  /\ accPc' = [accPc EXCEPT ![i] = "done"]
  /\ UNCHANGED <<DataSenderActive, ConnectionReceiverThreadId, DataSenderThreadId,
                 DataCollector, serviceState, vMain, vRegistry, vRecord, ClientInfo,
                 MessageResponseQueue, LastSentTrackedFrameTimestamp, mutexHeld, vSender,
                 vReceiver, vProcessor, vCmdHistory, vChannel, sockAlive, wire>>
  /\ UNCHANGED vRest

\* Line 821: the loop has ended, the record's thread id is cleared.
ReceiverExit(c) ==
  /\ rcvPc[c] = "exit"
  /\ DataReceiverThreadId' = [DataReceiverThreadId EXCEPT ![c] = NoThread]
  /\ rcvPc' = [rcvPc EXCEPT ![c] = "ack"]
  /\ UNCHANGED <<vService, vMain, accPc, vRegistry, DataReceiverActive, ClientSocket,
                 ClientInfo, MessageResponseQueue, LastSentTrackedFrameTimestamp,
                 mutexHeld, vSender, headerMsg, previousCommandIds, vProcessor,
                 vCmdHistory, vChannel, sockAlive, wire>>
  /\ UNCHANGED vRest

\* Lines 822-823: the acknowledge flag is cleared and the thread returns.
ReceiverAcknowledge(c) ==
  /\ rcvPc[c] = "ack"
  /\ DataReceiverActive' = [DataReceiverActive EXCEPT ![c].second = FALSE]
  /\ rcvPc' = [rcvPc EXCEPT ![c] = "done"]
  /\ UNCHANGED <<vService, vMain, accPc, vRegistry, DataReceiverThreadId, ClientSocket,
                 ClientInfo, MessageResponseQueue, LastSentTrackedFrameTimestamp,
                 mutexHeld, vSender, headerMsg, previousCommandIds, vProcessor,
                 vCmdHistory, vChannel, sockAlive, wire>>
  /\ UNCHANGED vRest

\* ----------------------------------------------- data receiver thread (2)
\* The subscription a PlusClientInfo message carries.
MessageClientInfo ==
  [Subscription |-> "custom", TDATARequested |-> FALSE, Resolution |-> 0,
   ClientHeaderVersion |-> 1, LastTDATASentTimeStamp |-> 0]

\* PlusClientInfo message, lines 576-587: when the body unpacks, the guard
\* on the clients is taken for the write.
HandleClientInfoLock(c) ==
  /\ rcvPc[c] = "body"
  /\ headerMsg[c].type = "CLIENTINFO"
  /\ IF headerMsg[c].ok
     THEN /\ Lock(RcvThread(c), ClientsMutex)
          /\ rcvPc' = [rcvPc EXCEPT ![c] = "info_locked"]
     ELSE /\ rcvPc' = [rcvPc EXCEPT ![c] = "loop"]
          /\ UNCHANGED mutexHeld
  /\ UNCHANGED <<vService, vMain, accPc, vRegistry, vRecord, ClientInfo,
                 MessageResponseQueue, LastSentTrackedFrameTimestamp, vSender, headerMsg,
                 previousCommandIds, vProcessor, vCmdHistory, vChannel, sockAlive, wire>>
  /\ UNCHANGED vRest

\* Lines 588-591: the record's ClientInfo is replaced and the guard ends.
HandleClientInfoWrite(c) ==
  /\ rcvPc[c] = "info_locked"
  /\ ClientInfo' = [ClientInfo EXCEPT ![c] = MessageClientInfo]
  /\ Unlock(RcvThread(c))
  /\ rcvPc' = [rcvPc EXCEPT ![c] = "loop"]
  /\ UNCHANGED <<vService, vMain, accPc, vRegistry, vRecord, MessageResponseQueue,
                 LastSentTrackedFrameTimestamp, vSender, headerMsg, previousCommandIds,
                 vProcessor, vCmdHistory, vChannel, sockAlive, wire>>
  /\ UNCHANGED vRest

\* StartTrackingData message, lines 702-722: when the body unpacks,
\* Resolution and TDATARequested are written and the RTS_TDATA answer is
\* queued next; when it does not, the thread returns at line 721.
HandleStartTracking(c) ==
  /\ rcvPc[c] = "body"
  /\ headerMsg[c].type = "STT_TDATA"
  /\ IF headerMsg[c].ok
     THEN /\ ClientInfo' = [ClientInfo EXCEPT ![c].Resolution = headerMsg[c].num,
                                               ![c].TDATARequested = TRUE]
          /\ rcvPc' = [rcvPc EXCEPT ![c] = "queue"]
     ELSE /\ rcvPc' = [rcvPc EXCEPT ![c] = "done"]
          /\ UNCHANGED ClientInfo
  /\ UNCHANGED <<vService, vMain, accPc, vRegistry, vRecord, MessageResponseQueue,
                 LastSentTrackedFrameTimestamp, mutexHeld, vSender, headerMsg,
                 previousCommandIds, vProcessor, vCmdHistory, vChannel, sockAlive, wire>>
  /\ UNCHANGED vRest

\* StopTrackingData message, lines 730-738: TDATARequested is written and
\* the RTS_TDATA answer is queued next.
HandleStopTracking(c) ==
  /\ rcvPc[c] = "body"
  /\ headerMsg[c].type = "STP_TDATA"
  /\ ClientInfo' = [ClientInfo EXCEPT ![c].TDATARequested = FALSE]
  /\ rcvPc' = [rcvPc EXCEPT ![c] = "queue"]
  /\ UNCHANGED <<vService, vMain, accPc, vRegistry, vRecord, MessageResponseQueue,
                 LastSentTrackedFrameTimestamp, mutexHeld, vSender, headerMsg,
                 previousCommandIds, vProcessor, vCmdHistory, vChannel, sockAlive, wire>>
  /\ UNCHANGED vRest

\* QueueMessageResponseForClient as the receiver thread of client c calls
\* it (lines 727 and 743), lock by lock.  Line 118: the guard on the clients.
QueueMessageResponseLockClients(c) ==
  /\ rcvPc[c] = "queue"
  /\ Lock(RcvThread(c), ClientsMutex)
  /\ rcvPc' = [rcvPc EXCEPT ![c] = "queue_find"]
  /\ UNCHANGED <<vService, vMain, accPc, vRegistry, vRecord, ClientInfo,
                 MessageResponseQueue, LastSentTrackedFrameTimestamp, vSender, headerMsg,
                 previousCommandIds, vProcessor, vCmdHistory, vChannel, sockAlive, wire>>
  /\ UNCHANGED vRest

\* The same step of a variant that does not end the guard on the clients
\* before it takes the guard on the queue.
QueueMessageResponseFindKeepLock(c) ==
  /\ rcvPc[c] = "queue_find"
  /\ rcvPc' = [rcvPc EXCEPT ![c] = IF c \in IgtlClients THEN "queue_found" ELSE "loop"]
  /\ UNCHANGED <<vService, vMain, accPc, vRegistry, vRecord, ClientInfo,
                 MessageResponseQueue, LastSentTrackedFrameTimestamp, mutexHeld, vSender,
                 headerMsg, previousCommandIds, vProcessor, vCmdHistory, vChannel,
                 sockAlive, wire>>
  /\ UNCHANGED vRest

\* Lines 119-134: the client is looked up, the guard ends, and a client
\* that is not in the list ends the call.
QueueMessageResponseFind(c) ==
  /\ rcvPc[c] = "queue_find"
  /\ Unlock(RcvThread(c))
  /\ rcvPc' = [rcvPc EXCEPT ![c] = IF c \in IgtlClients THEN "queue_found" ELSE "loop"]
  /\ UNCHANGED <<vService, vMain, accPc, vRegistry, vRecord, ClientInfo,
                 MessageResponseQueue, LastSentTrackedFrameTimestamp, vSender, headerMsg,
                 previousCommandIds, vProcessor, vCmdHistory, vChannel, sockAlive, wire>>
  /\ UNCHANGED vRest

\* A variant of QueueMessageResponseLockQueue: the message is appended
\* without the guard on the queue.
QueueMessageResponseNoGuard(c) ==
  /\ rcvPc[c] = "queue_found"
  /\ mutexHeld' = [mutexHeld EXCEPT ![RcvThread(c)] = Append(@, QueueMutex)]
  /\ rcvPc' = [rcvPc EXCEPT ![c] = "queue_push"]
  /\ UNCHANGED <<vService, vMain, accPc, vRegistry, vRecord, ClientInfo,
                 MessageResponseQueue, LastSentTrackedFrameTimestamp, vSender, headerMsg,
                 previousCommandIds, vProcessor, vCmdHistory, vChannel, sockAlive, wire>>
  /\ UNCHANGED vRest
\* Line 136: the guard on the message response queue.
QueueMessageResponseLockQueue(c) ==
  /\ rcvPc[c] = "queue_found"
  /\ Lock(RcvThread(c), QueueMutex)
  /\ rcvPc' = [rcvPc EXCEPT ![c] = "queue_push"]
  /\ UNCHANGED <<vService, vMain, accPc, vRegistry, vRecord, ClientInfo,
                 MessageResponseQueue, LastSentTrackedFrameTimestamp, vSender, headerMsg,
                 previousCommandIds, vProcessor, vCmdHistory, vChannel, sockAlive, wire>>
  /\ UNCHANGED vRest

\* The message a handler hands to QueueMessageResponseForClient: RTS_TDATA
\* at lines 724-728 and 739-743, POLYDATA at lines 787-796 and RTS_POLYDATA
\* at lines 800-803.
ResponseMessage(h) ==
  IF h.type = "GET_POLYDATA" THEN (IF h.ok THEN "POLYDATA" ELSE "RTS_POLYDATA")
  ELSE "RTS_TDATA"
\* Lines 137-139: the message is appended to the client's list and the
\* guard ends.
PushMessageResponse(c) ==
  /\ rcvPc[c] = "queue_push"
  /\ MessageResponseQueue' =
       [MessageResponseQueue EXCEPT ![c] = Append(@, ResponseMessage(headerMsg[c]))]
  /\ Unlock(RcvThread(c))
  /\ rcvPc' = [rcvPc EXCEPT ![c] = "loop"]
  /\ UNCHANGED <<vService, vMain, accPc, vRegistry, vRecord, ClientInfo,
                 LastSentTrackedFrameTimestamp, vSender, headerMsg, previousCommandIds,
                 vProcessor, vCmdHistory, vChannel, sockAlive, wire>>
QueueMessageResponsePush(c) ==
  /\ PushMessageResponse(c)
  /\ UNCHANGED vRest

\* ------------------------------------------------------------ the wire
\* What reaches a client socket's Send: the message and the value Send
\* returns after its retries (0: failed).
WireEntry(kind, val, ret) == [kind |-> kind, val |-> val, ret |-> ret]
SendResult(c) == IF sockAlive[c] THEN 1 ELSE 0
FrameKinds == {"IMAGE", "TRANSFORM", "TDATA"}

\* PackMessages: the message types a client's subscription asks for, one
\* message of each per tracked frame.
PackMessages(info) ==
  (IF info.Subscription = "default" THEN <<"IMAGE", "TRANSFORM">> ELSE <<"TRANSFORM">>)
    \o (IF info.TDATARequested THEN <<"TDATA">> ELSE <<>>)

\* The inner loop of SendTrackedFrame without the break.
RECURSIVE SendIgnoringFailure(_, _, _)
SendIgnoringFailure(msgs, ts, ret) ==
  IF msgs = <<>> THEN <<>>
  ELSE <<WireEntry(Head(msgs), ts, ret)>> \o SendIgnoringFailure(Tail(msgs), ts, ret)
\* The inner loop of SendTrackedFrame ending after its first message.
SendFirstOnly(msgs, ts, ret) ==
  IF msgs = <<>> THEN <<>> ELSE <<WireEntry(Head(msgs), ts, ret)>>
\* The inner loop of SendTrackedFrame, lines 864-886: the messages of one
\* frame go out in order, and the first Send that returns 0 ends the loop.
RECURSIVE SendUntilFailure(_, _, _)
SendUntilFailure(msgs, ts, ret) ==
  IF msgs = <<>> THEN <<>>
  ELSE IF ret = 0 THEN <<WireEntry(Head(msgs), ts, 0)>>
  ELSE <<WireEntry(Head(msgs), ts, ret)>> \o SendUntilFailure(Tail(msgs), ts, ret)

\* ------------------------------------------------------- the data buffer
\* vtkPlusChannel::GetTrackedFrameList: the frames newer than the given
\* timestamp, oldest first, at most n of them.
RECURSIVE NewerThan(_, _)
NewerThan(buf, ts) ==
  IF buf = <<>> THEN <<>>
  ELSE IF Head(buf) > ts THEN buf ELSE NewerThan(Tail(buf), ts)
GetTrackedFrameList(buf, ts, n) ==
  LET newer == NewerThan(buf, ts) IN SubSeq(newer, 1, Min(n, Len(newer)))

\* A watermark that always starts over from the oldest buffered frame.
RestartFromOldest(lastSent, oldest) == oldest - 1
\* Lines 407-411: a watermark older than the oldest buffered frame jumps
\* past it by the skipping margin.
SkipToOldest(lastSent, oldest) ==
  IF lastSent < oldest THEN oldest + SAMPLING_SKIPPING_MARGIN ELSE lastSent

\* ----------------------------------------------------- data sender thread
\* The data collector has devices: the thread does not return early.
DevicesAvailable == TRUE

\* Thread entry, lines 278-337.
SenderStart(i) ==
  /\ sndPc[i] = "spawned"
  /\ DataSenderActive' = [DataSenderActive EXCEPT !.second = TRUE]
  /\ IF DevicesAvailable
     THEN /\ LastSentTrackedFrameTimestamp' =
               IF buffer # <<>> THEN Last(buffer) ELSE LastSentTrackedFrameTimestamp
          /\ elapsedTimeSinceLastPacketSentSec' = 0
          /\ sndPc' = [sndPc EXCEPT ![i] = "loop"]
     ELSE /\ sndPc' = [sndPc EXCEPT ![i] = "done"]
          /\ UNCHANGED <<LastSentTrackedFrameTimestamp, elapsedTimeSinceLastPacketSentSec>>
  /\ UNCHANGED <<ConnectionActive, ConnectionReceiverThreadId, DataSenderThreadId,
                 DataCollector, serviceState, vMain, accPc, vRegistry, vRecord, ClientInfo,
                 MessageResponseQueue, mutexHeld, startTimeSec, trackedFrameList, replies,
                 smrIt, disconnectedClientIds, cycle, vReceiver, vProcessor, vCmdHistory,
                 vChannel, sockAlive, wire>>
  /\ UNCHANGED vRest

\* Loop condition and the guarded look at the registry, lines 338-347.
SenderLoop(i) ==
  /\ sndPc[i] = "loop"
  /\ IF ConnectionActive.first /\ DataSenderActive.first
     THEN /\ MutexFree(SndThread(i), ClientsMutex)
          /\ sndPc' = [sndPc EXCEPT ![i] = IF IgtlClients = {} THEN "idle" ELSE "responses"]
          /\ cycle' = IF IgtlClients = {} THEN cycle ELSE Min(cycle + 1, MaxCycles)
     ELSE /\ sndPc' = [sndPc EXCEPT ![i] = "exit"]
          /\ UNCHANGED cycle
  /\ UNCHANGED <<vService, vMain, accPc, vRegistry, vRecord, ClientInfo,
                 MessageResponseQueue, LastSentTrackedFrameTimestamp, mutexHeld,
                 elapsedTimeSinceLastPacketSentSec, startTimeSec, trackedFrameList, replies,
                 smrIt, disconnectedClientIds, vReceiver, vProcessor, vCmdHistory, vChannel,
                 sockAlive, wire>>
  /\ UNCHANGED vRest

\* Lines 348-354: no client, the watermark is reset after the delay.
SenderIdle(i) ==
  /\ sndPc[i] = "idle"
  /\ LastSentTrackedFrameTimestamp' = 0
  /\ sndPc' = [sndPc EXCEPT ![i] = "loop"]
  /\ UNCHANGED <<vService, vMain, accPc, vRegistry, vRecord, ClientInfo,
                 MessageResponseQueue, mutexHeld, elapsedTimeSinceLastPacketSentSec,
                 startTimeSec, trackedFrameList, replies, smrIt, disconnectedClientIds,
                 cycle, vReceiver, vProcessor, vCmdHistory, vChannel, sockAlive, wire>>
  /\ UNCHANGED vRest

\* SendMessageResponses, lines 457-490, lock by lock.
QueuedClients == {c \in ClientIds : MessageResponseQueue[c] # <<>>}

\* Line 459: the guard on the message response queue; line 462: begin().
SendMessageResponsesLockQueue(i) ==
  /\ sndPc[i] = "responses"
  /\ Lock(SndThread(i), QueueMutex)
  /\ smrIt' = IF QueuedClients = {} THEN 0 ELSE SetMin(QueuedClients)
  /\ sndPc' = [sndPc EXCEPT ![i] = IF QueuedClients = {} THEN "responses_end" ELSE "responses_entry"]
  /\ UNCHANGED <<vService, vMain, accPc, vRegistry, vRecord, ClientInfo,
                 MessageResponseQueue, LastSentTrackedFrameTimestamp,
                 elapsedTimeSinceLastPacketSentSec, startTimeSec, trackedFrameList, replies,
                 disconnectedClientIds, cycle, vReceiver, vProcessor, vCmdHistory, vChannel,
                 sockAlive, wire>>
  /\ UNCHANGED vRest

\* Line 464: the guard on the clients, taken inside the loop body.
SendMessageResponsesLockClients(i) ==
  /\ sndPc[i] = "responses_entry"
  /\ Lock(SndThread(i), ClientsMutex)
  /\ sndPc' = [sndPc EXCEPT ![i] = "responses_send"]
  /\ UNCHANGED <<vService, vMain, accPc, vRegistry, vRecord, ClientInfo,
                 MessageResponseQueue, LastSentTrackedFrameTimestamp,
                 elapsedTimeSinceLastPacketSentSec, startTimeSec, trackedFrameList, replies,
                 smrIt, disconnectedClientIds, cycle, vReceiver, vProcessor, vCmdHistory,
                 vChannel, sockAlive, wire>>
  /\ UNCHANGED vRest

\* Lines 465-485: the socket is looked up, the entry's messages are sent
\* (return values unused), the clients guard ends, ++it.
SendMessageResponsesEntry(i) ==
  /\ sndPc[i] = "responses_send"
  /\ wire' = IF smrIt \in IgtlClients
             THEN [wire EXCEPT ![smrIt] =
                     @ \o [k \in 1..Len(MessageResponseQueue[smrIt]) |->
                             WireEntry(MessageResponseQueue[smrIt][k], 0, SendResult(smrIt))]]
             ELSE wire
  /\ Unlock(SndThread(i))
  /\ LET rest == {c \in QueuedClients : c > smrIt} IN
       /\ smrIt' = IF rest = {} THEN 0 ELSE SetMin(rest)
       /\ sndPc' = [sndPc EXCEPT ![i] = IF rest = {} THEN "responses_end" ELSE "responses_entry"]
  /\ UNCHANGED <<vService, vMain, accPc, vRegistry, vRecord, ClientInfo,
                 MessageResponseQueue, LastSentTrackedFrameTimestamp,
                 elapsedTimeSinceLastPacketSentSec, startTimeSec, trackedFrameList, replies,
                 disconnectedClientIds, cycle, vReceiver, vProcessor, vCmdHistory, vChannel,
                 sockAlive>>
  /\ UNCHANGED vRest

\* Lines 486-489: the queue is cleared and its guard ends.
SendMessageResponsesClear(i) ==
  /\ sndPc[i] = "responses_end"
  /\ MessageResponseQueue' = [c \in ClientIds |-> <<>>]
  /\ Unlock(SndThread(i))
  /\ sndPc' = [sndPc EXCEPT ![i] = "command_responses"]
  /\ UNCHANGED <<vService, vMain, accPc, vRegistry, vRecord, ClientInfo,
                 LastSentTrackedFrameTimestamp, elapsedTimeSinceLastPacketSentSec,
                 startTimeSec, trackedFrameList, replies, smrIt, disconnectedClientIds,
                 cycle, vReceiver, vProcessor, vCmdHistory, vChannel, sockAlive, wire>>
  /\ UNCHANGED vRest

\* SendCommandResponses, lines 493-498: the processor's responses are
\* popped into the local list.
SendCommandResponsesPop(i) ==
  /\ sndPc[i] = "command_responses"
  /\ replies' = commandResponses
  /\ commandResponses' = <<>>
  /\ sndPc' = [sndPc EXCEPT ![i] = IF commandResponses = <<>> THEN "frames" ELSE "reply"]
  /\ UNCHANGED <<vService, vMain, accPc, vRegistry, vRecord, ClientInfo,
                 MessageResponseQueue, LastSentTrackedFrameTimestamp, mutexHeld,
                 elapsedTimeSinceLastPacketSentSec, startTimeSec, trackedFrameList, smrIt,
                 disconnectedClientIds, cycle, vReceiver, commandQueue, cmdDone,
                 vCmdHistory, vChannel, sockAlive, wire>>
  /\ UNCHANGED vRest

\* A reply pass that takes the response off the list without sending it.
SendCommandResponsesSkip(i) ==
  /\ sndPc[i] = "reply"
  /\ replies' = Tail(replies)
  /\ sndPc' = [sndPc EXCEPT ![i] = IF Tail(replies) = <<>> THEN "frames" ELSE "reply"]
  /\ UNCHANGED <<vService, vMain, accPc, vRegistry, vRecord, ClientInfo,
                 MessageResponseQueue, LastSentTrackedFrameTimestamp, mutexHeld,
                 elapsedTimeSinceLastPacketSentSec, startTimeSec, trackedFrameList, smrIt,
                 disconnectedClientIds, cycle, vReceiver, vProcessor, vCmdHistory, vChannel,
                 sockAlive, wire>>
  /\ UNCHANGED vRest

\* Lines 499-528, one pass: under the clients guard the socket of the
\* requesting client is looked up and the reply sent (return value unused).
SendCommandResponsesReply(i) ==
  /\ sndPc[i] = "reply"
  /\ MutexFree(SndThread(i), ClientsMutex)
  /\ LET r == Head(replies) IN
       wire' = IF r.clientId \in IgtlClients
               THEN [wire EXCEPT ![r.clientId] =
                       Append(@, WireEntry("REPLY", r.uid, SendResult(r.clientId)))]
               ELSE wire
  /\ replies' = Tail(replies)
  /\ sndPc' = [sndPc EXCEPT ![i] = IF Tail(replies) = <<>> THEN "frames" ELSE "reply"]
  /\ UNCHANGED <<vService, vMain, accPc, vRegistry, vRecord, ClientInfo,
                 MessageResponseQueue, LastSentTrackedFrameTimestamp, mutexHeld,
                 elapsedTimeSinceLastPacketSentSec, startTimeSec, trackedFrameList, smrIt,
                 disconnectedClientIds, cycle, vReceiver, vProcessor, vCmdHistory, vChannel,
                 sockAlive>>
  /\ UNCHANGED vRest

\* SendLatestFramesToClients, lines 376-419.  n: numberOfFramesToGet, which
\* the processing time of the last round sets between 1 and
\* MaxNumberOfIgtlMessagesToSend.  Data is available when the buffer holds a
\* frame.
GetFrames(i, n) ==
  /\ sndPc[i] = "frames"
  /\ startTimeSec' = now
  /\ IF buffer = <<>>
     THEN /\ trackedFrameList' = <<>>
          /\ UNCHANGED LastSentTrackedFrameTimestamp
     ELSE LET from == SkipToOldest(LastSentTrackedFrameTimestamp, Head(buffer))
              got == GetTrackedFrameList(buffer, from, n)
          IN /\ trackedFrameList' = got
             /\ LastSentTrackedFrameTimestamp' = IF got = <<>> THEN from ELSE Last(got)
  /\ sndPc' = [sndPc EXCEPT ![i] = IF trackedFrameList' = <<>> THEN "no_frames" ELSE "frame"]
  /\ UNCHANGED <<vService, vMain, accPc, vRegistry, vRecord, ClientInfo,
                 MessageResponseQueue, mutexHeld, elapsedTimeSinceLastPacketSentSec,
                 replies, smrIt, disconnectedClientIds, cycle, vReceiver, vProcessor,
                 vCmdHistory, vChannel, sockAlive, wire>>
  /\ UNCHANGED vRest

\* The keep-alive test of a sender that waits one tick longer.
KeepAliveDueLate(elapsed) == elapsed > KeepAliveIntervalSec + 1
\* Line 428: the test that decides a keep-alive.
KeepAliveDue(elapsed) == elapsed > KeepAliveIntervalSec

\* Lines 421-436 with KeepAlive, lines 984-1014: the time since
\* startTimeSec is added and, when the keep-alive is due, one STATUS message
\* goes to every client under the clients guard; the clients whose Send
\* returned 0 are collected.
NoNewFrames(i) ==
  /\ sndPc[i] = "no_frames"
  /\ LET elapsed == elapsedTimeSinceLastPacketSentSec + (now - startTimeSec) IN
       IF KeepAliveDue(elapsed)
       THEN /\ MutexFree(SndThread(i), ClientsMutex)
            /\ wire' = [c \in ClientIds |->
                          IF c \in IgtlClients
                          THEN Append(wire[c], WireEntry("STATUS", 0, SendResult(c)))
                          ELSE wire[c]]
            /\ disconnectedClientIds' = SortedSeq({c \in IgtlClients : SendResult(c) = 0})
            /\ elapsedTimeSinceLastPacketSentSec' = 0
            /\ sndPc' = [sndPc EXCEPT ![i] =
                           IF disconnectedClientIds' = <<>> THEN "loop" ELSE "dc_request"]
       ELSE /\ elapsedTimeSinceLastPacketSentSec' = elapsed
            /\ sndPc' = [sndPc EXCEPT ![i] = "loop"]
            /\ UNCHANGED <<wire, disconnectedClientIds>>
  /\ UNCHANGED <<vService, vMain, accPc, vRegistry, vRecord, ClientInfo,
                 MessageResponseQueue, LastSentTrackedFrameTimestamp, mutexHeld,
                 startTimeSec, trackedFrameList, replies, smrIt, cycle, vReceiver,
                 vProcessor, vCmdHistory, vChannel, sockAlive>>
  /\ UNCHANGED vRest

\* SendTrackedFrame, lines 827-849: the guard on the clients.
SendTrackedFrameLock(i) ==
  /\ sndPc[i] = "frame"
  /\ Lock(SndThread(i), ClientsMutex)
  /\ sndPc' = [sndPc EXCEPT ![i] = "frame_locked"]
  /\ UNCHANGED <<vService, vMain, accPc, vRegistry, vRecord, ClientInfo,
                 MessageResponseQueue, LastSentTrackedFrameTimestamp,
                 elapsedTimeSinceLastPacketSentSec, startTimeSec, trackedFrameList, replies,
                 smrIt, disconnectedClientIds, cycle, vReceiver, vProcessor, vCmdHistory,
                 vChannel, sockAlive, wire>>
  /\ UNCHANGED vRest

\* What SendTrackedFrame hands to client c's socket for the frame stamped ts.
FrameSends(c, ts) == SendUntilFailure(PackMessages(ClientInfo[c]), ts, SendResult(c))

\* Lines 850-888 and line 442: every client in the list gets the frame's
\* messages, LastTDATASentTimeStamp follows each message sent, the clients
\* with a failed Send are collected, the guard ends.
SendTrackedFrame(i) ==
  /\ sndPc[i] = "frame_locked"
  /\ LET ts == Head(trackedFrameList) IN
       /\ wire' = [c \in ClientIds |->
                     IF c \in IgtlClients THEN wire[c] \o FrameSends(c, ts) ELSE wire[c]]
       /\ ClientInfo' =
            [c \in ClientIds |->
               IF c \in IgtlClients /\ \E k \in 1..Len(FrameSends(c, ts)) : FrameSends(c, ts)[k].ret # 0
               THEN [ClientInfo[c] EXCEPT !.LastTDATASentTimeStamp = ts]
               ELSE ClientInfo[c]]
       /\ disconnectedClientIds' =
            SortedSeq({c \in IgtlClients :
                         \E k \in 1..Len(FrameSends(c, ts)) : FrameSends(c, ts)[k].ret = 0})
  /\ Unlock(SndThread(i))
  /\ trackedFrameList' = Tail(trackedFrameList)
  /\ elapsedTimeSinceLastPacketSentSec' = 0
  /\ sndPc' = [sndPc EXCEPT ![i] =
                 IF disconnectedClientIds' # <<>> THEN "dc_request"
                 ELSE IF Tail(trackedFrameList) = <<>> THEN "loop" ELSE "frame"]
  /\ UNCHANGED <<vService, vMain, accPc, vRegistry, vRecord, MessageResponseQueue,
                 LastSentTrackedFrameTimestamp, startTimeSec, replies, smrIt, cycle,
                 vReceiver, vProcessor, vCmdHistory, vChannel, sockAlive>>
  /\ UNCHANGED vRest

\* Lines 891-894 and 1017-1020: DisconnectClient for each collected id,
\* block by block.
SenderDisconnectRequest(i) ==
  /\ sndPc[i] = "dc_request"
  /\ MutexFree(SndThread(i), ClientsMutex)
  /\ DisconnectRequest(Head(disconnectedClientIds))
  /\ sndPc' = [sndPc EXCEPT ![i] = "dc_wait"]
  /\ UNCHANGED <<vService, vMain, accPc, ClientInfo, MessageResponseQueue,
                 LastSentTrackedFrameTimestamp, mutexHeld, elapsedTimeSinceLastPacketSentSec,
                 startTimeSec, trackedFrameList, replies, smrIt, disconnectedClientIds,
                 cycle, vReceiver, vProcessor, vCmdHistory, vChannel, sockAlive, wire>>
  /\ UNCHANGED vRest

SenderDisconnectWait(i) ==
  /\ sndPc[i] = "dc_wait"
  /\ MutexFree(SndThread(i), ClientsMutex)
  /\ DisconnectWaitDone(Head(disconnectedClientIds))
  /\ sndPc' = [sndPc EXCEPT ![i] = "dc_erase"]
  /\ UNCHANGED <<vService, vMain, accPc, ClientInfo, MessageResponseQueue,
                 LastSentTrackedFrameTimestamp, mutexHeld, elapsedTimeSinceLastPacketSentSec,
                 startTimeSec, trackedFrameList, replies, smrIt, disconnectedClientIds,
                 cycle, vReceiver, vProcessor, vCmdHistory, vChannel, sockAlive, wire>>
  /\ UNCHANGED vRest

SenderDisconnectErase(i) ==
  /\ sndPc[i] = "dc_erase"
  /\ MutexFree(SndThread(i), ClientsMutex)
  /\ DisconnectErase(Head(disconnectedClientIds))
  /\ disconnectedClientIds' = Tail(disconnectedClientIds)
  /\ sndPc' = [sndPc EXCEPT ![i] =
                 IF Tail(disconnectedClientIds) # <<>> THEN "dc_request"
                 ELSE IF trackedFrameList = <<>> THEN "loop" ELSE "frame"]
  /\ UNCHANGED <<vService, vMain, accPc, ClientInfo, MessageResponseQueue,
                 LastSentTrackedFrameTimestamp, mutexHeld, elapsedTimeSinceLastPacketSentSec,
                 startTimeSec, trackedFrameList, replies, smrIt, cycle, vReceiver,
                 vProcessor, vCmdHistory, vChannel, sockAlive, wire>>
  /\ UNCHANGED vRest

\* Line 370: the loop has ended, the thread id is cleared.
SenderExit(i) ==
  /\ sndPc[i] = "exit"
  /\ DataSenderThreadId' = NoThread
  /\ sndPc' = [sndPc EXCEPT ![i] = "ack"]
  /\ UNCHANGED <<ConnectionActive, DataSenderActive, ConnectionReceiverThreadId,
                 DataCollector, serviceState, vMain, accPc, vRegistry, vRecord, ClientInfo,
                 MessageResponseQueue, LastSentTrackedFrameTimestamp, mutexHeld,
                 elapsedTimeSinceLastPacketSentSec, startTimeSec, trackedFrameList, replies,
                 smrIt, disconnectedClientIds, cycle, vReceiver, vProcessor, vCmdHistory,
                 vChannel, sockAlive, wire>>
  /\ UNCHANGED vRest

\* Lines 371-372: the acknowledge flag is cleared and the thread returns.
SenderAcknowledge(i) ==
  /\ sndPc[i] = "ack"
  /\ DataSenderActive' = [DataSenderActive EXCEPT !.second = FALSE]
  /\ sndPc' = [sndPc EXCEPT ![i] = "done"]
  /\ UNCHANGED <<ConnectionActive, ConnectionReceiverThreadId, DataSenderThreadId,
                 DataCollector, serviceState, vMain, accPc, vRegistry, vRecord, ClientInfo,
                 MessageResponseQueue, LastSentTrackedFrameTimestamp, mutexHeld,
                 elapsedTimeSinceLastPacketSentSec, startTimeSec, trackedFrameList, replies,
                 smrIt, disconnectedClientIds, cycle, vReceiver, vProcessor, vCmdHistory,
                 vChannel, sockAlive, wire>>
  /\ UNCHANGED vRest

\* --------------------------------------------------------- surroundings
\* The system clock advances by one tick (0.1 s).
Tick ==
  /\ now < MaxTime
  /\ now' = now + 1
  /\ UNCHANGED <<vService, vMain, accPc, vRegistry, vRecord, ClientInfo,
                 MessageResponseQueue, LastSentTrackedFrameTimestamp, mutexHeld, vSender,
                 vReceiver, vProcessor, vCmdHistory, buffer, sockAlive, wire>>
  /\ UNCHANGED vRest

\* The device adds a frame stamped with the current time to the channel's
\* circular buffer, which keeps the newest BufferSize frames.
AcquireFrame ==
  /\ now >= 1
  /\ IF buffer = <<>> THEN TRUE ELSE Last(buffer) < now
  /\ buffer' = LastN(Append(buffer, now), BufferSize)
  /\ UNCHANGED <<vService, vMain, accPc, vRegistry, vRecord, ClientInfo,
                 MessageResponseQueue, LastSentTrackedFrameTimestamp, mutexHeld, vSender,
                 vReceiver, vProcessor, vCmdHistory, now, sockAlive, wire>>
  /\ UNCHANGED vRest

\* The peer of client c goes away: every later Send on the socket returns 0.
PeerCloses(c) ==
  /\ c \in IgtlClients
  /\ sockAlive[c]
  /\ sockAlive' = [sockAlive EXCEPT ![c] = FALSE]
  /\ UNCHANGED <<vService, vMain, accPc, vRegistry, vRecord, ClientInfo,
                 MessageResponseQueue, LastSentTrackedFrameTimestamp, mutexHeld, vSender,
                 vReceiver, vProcessor, vCmdHistory, vChannel, wire>>
  /\ UNCHANGED vRest

\* vtkPlusCommandProcessor::ExecuteCommands: the oldest queued command is
\* executed and its response queued for the sender.  cmdDone notes the
\* newest frame acquired and the sender cycle at that moment.
ExecuteCommands ==
  /\ commandQueue # <<>>
  /\ cycle < MaxCycles
  /\ Len(cmdDone) < MaxCommands
  /\ LET cmd == Head(commandQueue) IN
       /\ commandResponses' =
            Append(commandResponses, [clientId |-> cmd.clientId, uid |-> cmd.uid, kind |-> "REPLY"])
       /\ cmdDone' = Append(cmdDone, [clientId |-> cmd.clientId, uid |-> cmd.uid,
                                      frame |-> IF buffer = <<>> THEN 0 ELSE Last(buffer),
                                      cycle |-> cycle])
  /\ commandQueue' = Tail(commandQueue)
  /\ UNCHANGED <<vService, vMain, accPc, vRegistry, vRecord, ClientInfo,
                 MessageResponseQueue, LastSentTrackedFrameTimestamp, mutexHeld, vSender,
                 vReceiver, vCmdHistory, vChannel, sockAlive, wire>>
  /\ UNCHANGED vRest

\* ------------------------------------------------- command deduplication
\* One client connected; it sends command messages only.
NextCommands ==
  \/ \E c \in ClientIds : \E m \in CommandInputs(c) : ReceiverLoop(c, m)
  \/ \E c \in ClientIds : ReceiverLockForVersion(c)
  \/ \E c \in ClientIds : ReceiverSetVersion(c)
  \/ \E c \in ClientIds : HandleStringCommand(c)
  \/ \E c \in ClientIds : HandleCommand(c)
SpecCommands == InitServing(1) /\ [][NextCommands]_vars

\* The UIDs of the commands of client c that were queued, oldest first
\* (nothing takes a command off the queue under SpecCommands).
QueuedUids(c) ==
  LET q == SelectSeq(commandQueue, LAMBDA e : e.clientId = c)
  IN  [i \in 1..Len(q) |-> q[i].uid]
\* This step is the receipt of a command message with UID u from client c.
CommandArrives(c, u) == cmdReceived'[c] = Append(cmdReceived[c], u)
NothingQueuedOrAnswered ==
  commandQueue' = commandQueue /\ commandResponses' = commandResponses

\* C1 (as stated): a command whose UID equals the UID of one of the last 10
\* command messages received from the same client is not queued and gets no
\* response.
C1_DuplicateOfLastTenReceived ==
  [][\A c \in ClientIds : \A u \in Range(LastN(cmdReceived[c], NUMBER_OF_RECENT_COMMAND_IDS_STORED)) :
       CommandArrives(c, u) => NothingQueuedOrAnswered]_vars

\* C1 (amended): a command whose UID equals the UID of one of the last 10
\* commands of the same client that were queued (the received commands that
\* were not themselves ignored as repetitions) is not queued and gets no
\* response.
C1_DuplicateOfLastTenQueued ==
  [][\A c \in ClientIds : \A u \in Range(LastN(QueuedUids(c), NUMBER_OF_RECENT_COMMAND_IDS_STORED)) :
       CommandArrives(c, u) => NothingQueuedOrAnswered]_vars

\* A UID was received a second time, as a STRING or as a COMMAND, and is in
\* the queue once.
C1_Witness ==
  \E c \in ClientIds :
    /\ Len(cmdReceived[c]) >= 2
    /\ Last(cmdReceived[c]) \in Range(SubSeq(cmdReceived[c], 1, Len(cmdReceived[c]) - 1))
    /\ Last(cmdReceived[c]) \in Range(LastN(QueuedUids(c), NUMBER_OF_RECENT_COMMAND_IDS_STORED))
    /\ Cardinality({i \in 1..Len(commandQueue) :
                      commandQueue[i].uid = Last(cmdReceived[c])}) = 1
    /\ rcvPc[c] = "loop"

\* ------------------------------------------------------- the sender cycle
\* The service is running with one client connected and another may
\* connect; the channel acquires frames and peers go away.  The clients
\* send nothing.
NextFrames ==
  \/ \E connected \in BOOLEAN : AcceptorLoop(1, connected)
  \/ \E c \in ClientIds : ReceiverStart(c)
  \/ \E c \in ClientIds : ReceiverLoop(c, NoHeader)
  \/ \E c \in ClientIds : ReceiverExit(c)
  \/ \E c \in ClientIds : ReceiverAcknowledge(c)
  \/ SenderLoop(1)
  \/ SenderIdle(1)
  \/ SendMessageResponsesLockQueue(1)
  \/ SendMessageResponsesClear(1)
  \/ SendCommandResponsesPop(1)
  \/ \E n \in 1..MaxNumberOfIgtlMessagesToSend : GetFrames(1, n)
  \/ NoNewFrames(1)
  \/ SendTrackedFrameLock(1)
  \/ SendTrackedFrame(1)
  \/ SenderDisconnectRequest(1)
  \/ SenderDisconnectWait(1)
  \/ SenderDisconnectErase(1)
  \/ Tick
  \/ AcquireFrame
  \/ \E c \in ClientIds : PeerCloses(c)
SpecFrames == InitServing(1) /\ [][NextFrames]_vars

\* ------------------------------------------------------------ keep-alive
\* This step is sender i leaving the no-new-frames branch (lines 421-436).
NoNewFramesStep(i) == sndPc[i] = "no_frames" /\ sndPc'[i] # "no_frames"
\* The value line 428 compares with KeepAliveIntervalSec in this step.
ElapsedAtTest == elapsedTimeSinceLastPacketSentSec + (now - startTimeSec)
\* This step hands exactly one message, a STATUS, to the socket of client c.
OneStatusTo(c) ==
  /\ Len(wire'[c]) = Len(wire[c]) + 1
  /\ SubSeq(wire'[c], 1, Len(wire[c])) = wire[c]
  /\ Last(wire'[c]).kind = "STATUS"

\* C2 (as stated): in a cycle that pulled no frame, when the elapsed time
\* since the last packet has reached KeepAliveIntervalSec (equal or more),
\* exactly one STATUS message is sent to each connected client.
C2_KeepAliveWhenIntervalReached ==
  [][\A i \in ThreadSlots :
       NoNewFramesStep(i) /\ ElapsedAtTest >= KeepAliveIntervalSec
         => \A c \in IgtlClients : OneStatusTo(c)]_vars

\* C2 (amended): in a cycle that pulled no frame, exactly one STATUS message
\* is sent to each connected client when the elapsed time since the last
\* packet is more than KeepAliveIntervalSec, and none is sent when it is
\* equal or less.
C2_KeepAliveWhenIntervalExceeded ==
  [][\A i \in ThreadSlots :
       NoNewFramesStep(i)
         => IF ElapsedAtTest > KeepAliveIntervalSec
            THEN \A c \in IgtlClients : OneStatusTo(c)
            ELSE wire' = wire]_vars

\* The sender has just sent a keep-alive: the newest message on a connected
\* client's socket is a STATUS that was delivered, and the elapsed time is
\* back at zero.
C2_Witness ==
  /\ sndPc[1] = "loop"
  /\ elapsedTimeSinceLastPacketSentSec = 0
  /\ \E c \in IgtlClients :
       wire[c] # <<>> /\ Last(wire[c]).kind = "STATUS" /\ Last(wire[c]).ret = 1

\* ------------------------------------------------------ frame timestamps
\* The timestamps of the frame messages handed to the socket of client c,
\* in the order sent.
FrameTimestamps(c) ==
  LET f == SelectSeq(wire[c], LAMBDA e : e.kind \in FrameKinds)
  IN  [k \in 1..Len(f) |-> f[k].val]

\* C3: for every client, the timestamps of the frame messages sent to it
\* never decrease, whatever the watermark did in between (skipped forward
\* past the oldest buffered frame, or was reset to zero while no client was
\* connected).
C3_FrameTimestampsNonDecreasing ==
  \A c \in ClientIds :
    \A j, k \in 1..Len(FrameTimestamps(c)) :
      j < k => FrameTimestamps(c)[j] <= FrameTimestamps(c)[k]

\* The first client got a frame and was removed; the second client, served
\* after the watermark skipped forward, has frames of two different
\* timestamps.
C3_Witness ==
  /\ 1 \notin IgtlClients /\ FrameTimestamps(1) # <<>>
  /\ 2 \in IgtlClients
  /\ Cardinality(Range(FrameTimestamps(2))) >= 2
  /\ Head(FrameTimestamps(2)) > Head(buffer)

\* ------------------------------------------------------ failed frame send
\* The newest message handed to c's socket by a frame broadcast or a
\* keep-alive is one whose Send returned 0.
BroadcastKinds == FrameKinds \cup {"STATUS"}
SendFailed(e) == e.kind \in BroadcastKinds /\ e.ret = 0
\* This step is sender i broadcasting one tracked frame (lines 850-888).
BroadcastStep(i) == sndPc[i] = "frame_locked" /\ sndPc'[i] # "frame_locked"
\* All messages client c subscribed to, for the frame stamped ts, delivered.
AllDelivered(c, ts) ==
  [k \in 1..Len(PackMessages(ClientInfo[c])) |-> WireEntry(PackMessages(ClientInfo[c])[k], ts, 1)]

\* C5: when a Send of a frame message to a client returns 0, nothing more
\* is sent to that client and it is removed from the list before the next
\* frame is processed, while every other client gets all its messages of
\* that frame and no pulled frame is left out.
C5_FailedClientDroppedOthersServed ==
  [][/\ \A c \in ClientIds : \A k \in 1..Len(wire'[c]) :
          SendFailed(wire'[c][k]) => k = Len(wire'[c])
     /\ \A i \in ThreadSlots :
          /\ sndPc'[i] \in {"frame", "frame_locked", "frames"}
               => \A c \in IgtlClients' : wire'[c] = <<>> \/ ~SendFailed(Last(wire'[c]))
          /\ BroadcastStep(i)
               => /\ \A c \in IgtlClients :
                       sockAlive[c] => wire'[c] = wire[c] \o AllDelivered(c, Head(trackedFrameList))
                  /\ trackedFrameList' = Tail(trackedFrameList)
          /\ sndPc[i] \in {"frame_locked", "dc_erase"} /\ sndPc'[i] = "loop"
               => trackedFrameList' = <<>>]_vars

\* A frame went to two clients: the Send to the first returned 0 and the
\* client has been removed with nothing sent to it since, the second got
\* both of its messages, and the sender is about to process the next frame
\* of the same pull.
C5_Witness ==
  /\ sndPc[1] = "frame"
  /\ trackedFrameList # <<>>
  /\ 1 \notin IgtlClients /\ 2 \in IgtlClients
  /\ wire[1] # <<>> /\ Last(wire[1]).kind \in FrameKinds /\ Last(wire[1]).ret = 0
  /\ Len(wire[2]) >= 2
  /\ LastN(wire[2], 2) = AllDelivered(2, Last(wire[1]).val)

\* ------------------------------------------------------ command replies
\* The service is running with one client, which sends up to MaxCommands v3
\* commands while the channel acquires frames.
CommandsSent ==
  Len(commandQueue) + Len(cmdDone)
    + Cardinality({c \in ClientIds : rcvPc[c] \in {"hdr", "hdr_locked", "body"}})
ReplyInputs(c) ==
  {NoHeader} \cup (IF CommandsSent < MaxCommands THEN {CommandHeader(NextUid(c), TRUE)} ELSE {})

NextReplies ==
  \/ \E c \in ClientIds : \E m \in ReplyInputs(c) : ReceiverLoop(c, m)
  \/ \E c \in ClientIds : ReceiverLockForVersion(c)
  \/ \E c \in ClientIds : ReceiverSetVersion(c)
  \/ \E c \in ClientIds : HandleCommand(c)
  \/ SenderLoop(1)
  \/ SendMessageResponsesLockQueue(1)
  \/ SendMessageResponsesClear(1)
  \/ SendCommandResponsesPop(1)
  \/ SendCommandResponsesReply(1)
  \/ \E n \in 1..MaxNumberOfIgtlMessagesToSend : GetFrames(1, n)
  \/ NoNewFrames(1)
  \/ SendTrackedFrameLock(1)
  \/ SendTrackedFrame(1)
  \/ Tick
  \/ AcquireFrame
  \/ ExecuteCommands
SpecReplies == InitServing(1) /\ [][NextReplies]_vars

\* The reply to the executed command d has been handed to its client's
\* socket.
Replied(d) ==
  \E k \in 1..Len(wire[d.clientId]) :
    wire[d.clientId][k].kind = "REPLY" /\ wire[d.clientId][k].val = d.uid

\* C4 (as stated): a frame acquired after a command completed is not sent
\* to the client that issued the command before the reply to that command.
C4_ReplyBeforeLaterAcquiredFrame ==
  [][\A i \in ThreadSlots :
       BroadcastStep(i)
         => \A k \in 1..Len(cmdDone) :
              cmdDone[k].clientId \in IgtlClients /\ cmdDone[k].frame < Head(trackedFrameList)
                => Replied(cmdDone[k])]_vars

\* C4 (amended): a frame sent in a sender cycle that began after a command
\* completed is not sent to the client that issued the command before the
\* reply to that command.
C4_ReplyBeforeFrameOfLaterCycle ==
  [][\A i \in ThreadSlots :
       BroadcastStep(i)
         => \A k \in 1..Len(cmdDone) :
              cmdDone[k].clientId \in IgtlClients /\ cmdDone[k].cycle < cycle
                => Replied(cmdDone[k])]_vars

\* A command completed, its reply went to the client, and after the reply
\* the client was sent a frame acquired after the completion.
C4_Witness ==
  \E d \in Range(cmdDone) :
    \E j, k \in 1..Len(wire[d.clientId]) :
      /\ j < k
      /\ wire[d.clientId][j].kind = "REPLY" /\ wire[d.clientId][j].val = d.uid
      /\ wire[d.clientId][k].kind \in FrameKinds /\ wire[d.clientId][k].val > d.frame

\* ------------------------------------------------- subscriptions and locks
\* The service is running with its clients connected.  Each client sends
\* up to MaxOddMsgs messages that change its subscription: PlusClientInfo,
\* StartTrackingData, StopTrackingData, with bodies that unpack or not.
\* The channel has no frame yet.
SubscriptionInputs(c) ==
  {NoHeader} \cup
    (IF oddSent[c] < MaxOddMsgs
     THEN {PlainHeader("CLIENTINFO", ok, 0) : ok \in BOOLEAN}
            \cup {PlainHeader("STT_TDATA", ok, 1) : ok \in BOOLEAN}
            \cup {PlainHeader("STP_TDATA", TRUE, 0)}
     ELSE {})

NextLocks ==
  \/ \E c \in ClientIds : \E m \in SubscriptionInputs(c) : ReceiverLoop(c, m)
  \/ \E c \in ClientIds : ReceiverLockForVersion(c)
  \/ \E c \in ClientIds : ReceiverSetVersion(c)
  \/ \E c \in ClientIds : HandleClientInfoLock(c)
  \/ \E c \in ClientIds : HandleClientInfoWrite(c)
  \/ \E c \in ClientIds : HandleStartTracking(c)
  \/ \E c \in ClientIds : HandleStopTracking(c)
  \/ \E c \in ClientIds : QueueMessageResponseLockClients(c)
  \/ \E c \in ClientIds : QueueMessageResponseFind(c)
  \/ \E c \in ClientIds : QueueMessageResponseLockQueue(c)
  \/ \E c \in ClientIds : QueueMessageResponsePush(c)
  \/ SenderLoop(1)
  \/ SendMessageResponsesLockQueue(1)
  \/ SendMessageResponsesLockClients(1)
  \/ SendMessageResponsesEntry(1)
  \/ SendMessageResponsesClear(1)
  \/ SendCommandResponsesPop(1)
  \/ \E n \in 1..MaxNumberOfIgtlMessagesToSend : GetFrames(1, n)
  \/ NoNewFrames(1)
SpecLocks == InitServing(MaxClients) /\ [][NextLocks]_vars

\* The mutex thread t took first among those it holds.
TookFirst(t) == Head(mutexHeld[t])
HoldsBoth(t) == Holds(t, ClientsMutex) /\ Holds(t, QueueMutex)

\* C8: every client record in the list, unless it is being disconnected,
\* has its receiver thread running, whatever the client sent (a
\* StartTrackingData message whose body does not unpack included).
C8_EveryRecordHasReceiverThread ==
  \A c \in IgtlClients :
    DataReceiverActive[c].first => rcvPc[c] \notin {"none", "done"}

\* C9 (as stated): a thread that holds both mutexes took the clients mutex
\* first; none takes the clients mutex while it holds the mutex of the
\* message response queue.
C9_ClientsMutexBeforeQueueMutex ==
  \A t \in Threads : HoldsBoth(t) => TookFirst(t) = ClientsMutex

\* C9 (amended): a thread that holds both mutexes took the mutex of the
\* message response queue first; none takes the queue mutex while it holds
\* the clients mutex.
C9_QueueMutexBeforeClientsMutex ==
  \A t \in Threads : HoldsBoth(t) => TookFirst(t) = QueueMutex

\* The sender holds both mutexes while it sends the queued answers of a
\* connected client.
C9_Witness ==
  /\ HoldsBoth(SndThread(1))
  /\ sndPc[1] = "responses_send"
  /\ smrIt \in IgtlClients
  /\ MessageResponseQueue[smrIt] # <<>>

\* C10: whenever the subscription of a client record changes, the thread
\* that writes it holds the clients mutex (the acceptor fills in a new
\* record inside its guarded block).
C10_SubscriptionWrittenUnderClientsMutex ==
  [][\A c \in ClientIds :
       ClientInfo'[c] # ClientInfo[c]
         => \/ rcvPc'[c] # rcvPc[c] /\ Holds(RcvThread(c), ClientsMutex)
            \/ \E i \in ThreadSlots : sndPc'[i] # sndPc[i] /\ Holds(SndThread(i), ClientsMutex)
            \/ c \in IgtlClients' \ IgtlClients]_vars

\* ------------------------------------------------------- start and stop
\* The server has been constructed; the application calls Start and Stop,
\* clients connect and send nothing.
NextService ==
  \/ StartAcceptor
  \/ StartSender
  \/ StopRequest
  \/ StopWaitAcceptor
  \/ StopCollectClients
  \/ StopDisconnectRequest
  \/ StopDisconnectWait
  \/ StopDisconnectErase
  \/ StopReturn
  \/ \E i \in ThreadSlots : AcceptorStart(i)
  \/ \E i \in ThreadSlots : \E connected \in BOOLEAN : AcceptorLoop(i, connected)
  \/ \E i \in ThreadSlots : AcceptorExit(i)
  \/ \E i \in ThreadSlots : AcceptorAcknowledge(i)
  \/ \E c \in ClientIds : ReceiverStart(c)
  \/ \E c \in ClientIds : ReceiverLoop(c, NoHeader)
  \/ \E c \in ClientIds : ReceiverExit(c)
  \/ \E c \in ClientIds : ReceiverAcknowledge(c)
  \/ \E i \in ThreadSlots : SenderStart(i)
  \/ \E i \in ThreadSlots : SenderLoop(i)
  \/ \E i \in ThreadSlots : SenderIdle(i)
  \/ \E i \in ThreadSlots : SendMessageResponsesLockQueue(i)
  \/ \E i \in ThreadSlots : SendMessageResponsesClear(i)
  \/ \E i \in ThreadSlots : SendCommandResponsesPop(i)
  \/ \E i \in ThreadSlots : \E n \in 1..MaxNumberOfIgtlMessagesToSend : GetFrames(i, n)
  \/ \E i \in ThreadSlots : NoNewFrames(i)
  \/ \E i \in ThreadSlots : SenderExit(i)
  \/ \E i \in ThreadSlots : SenderAcknowledge(i)
SpecService == InitConstructed /\ [][NextService]_vars

\* A thread in its loop, or spawned and about to enter it.
AcceptorRunning(i) == accPc[i] \in {"spawned", "loop"}
SenderRunning(i) == sndPc[i] \notin {"none", "done", "exit", "ack"}

\* C6: once StopOpenIGTLinkService has returned, the acceptor, the sender
\* and every receiver thread have acknowledged (their acknowledge flags are
\* false) and have returned, so none touches the server afterwards.
C6_StopReturnsAfterAllAcknowledged ==
  serviceState = "stopped"
    => /\ ~ConnectionActive.second
       /\ ~DataSenderActive.second
       /\ \A i \in ThreadSlots : accPc[i] \in {"none", "done"} /\ sndPc[i] \in {"none", "done"}
       /\ \A c \in ClientIds : rcvPc[c] \in {"none", "done"}

\* C7: while the service is active (Start has returned, Stop has not been
\* called), exactly one acceptor thread and exactly one sender thread are
\* running.
C7_OneAcceptorOneSenderWhileActive ==
  serviceState = "active" /\ mainPc = "idle"
    => /\ Cardinality({i \in ThreadSlots : AcceptorRunning(i)}) = 1
       /\ Cardinality({i \in ThreadSlots : SenderRunning(i)}) = 1

\* ------------------------------------------------- concurrent disconnects
\* The service with MaxClients clients while Stop runs: the sender's
\* keep-alive finds closed peers and disconnects them while
\* StopOpenIGTLinkService disconnects every client it collected.
NextDisconnect ==
  \/ StopRequest
  \/ StopWaitAcceptor
  \/ StopCollectClients
  \/ StopDisconnectRequest
  \/ StopDisconnectWait
  \/ StopDisconnectErase
  \/ StopReturn
  \/ AcceptorLoop(1, FALSE)
  \/ AcceptorExit(1)
  \/ AcceptorAcknowledge(1)
  \/ \E c \in ClientIds : ReceiverLoop(c, NoHeader)
  \/ \E c \in ClientIds : ReceiverExit(c)
  \/ \E c \in ClientIds : ReceiverAcknowledge(c)
  \/ SenderLoop(1)
  \/ SenderIdle(1)
  \/ SendMessageResponsesLockQueue(1)
  \/ SendMessageResponsesClear(1)
  \/ SendCommandResponsesPop(1)
  \/ \E n \in 1..MaxNumberOfIgtlMessagesToSend : GetFrames(1, n)
  \/ NoNewFrames(1)
  \/ SenderDisconnectRequest(1)
  \/ SenderDisconnectWait(1)
  \/ SenderDisconnectErase(1)
  \/ SenderExit(1)
  \/ SenderAcknowledge(1)
  \/ Tick
  \/ \E c \in ClientIds : PeerCloses(c)
SpecDisconnect == InitServing(MaxClients) /\ [][NextDisconnect]_vars

\* A thread is in the last block of DisconnectClient(c).
MainErasing(c) == mainPc = "dc_erase" /\ Head(mainTodo) = c
SenderErasing(c) ==
  \E i \in ThreadSlots : sndPc[i] = "dc_erase" /\ Head(disconnectedClientIds) = c
\* The sender is somewhere in DisconnectClient(c).
SenderDisconnecting(c) ==
  \E i \in ThreadSlots :
    sndPc[i] \in {"dc_request", "dc_wait", "dc_erase"} /\ Head(disconnectedClientIds) = c

\* C11: each client socket is closed exactly once, by DisconnectClient:
\* the socket of a record in the list is open, the socket of a record that
\* was removed has been closed once and never a second time, and a socket
\* only gets closed in the last block of a DisconnectClient for its client,
\* also when the sender thread and StopOpenIGTLinkService disconnect the
\* same client concurrently or one after the other.
C11_SocketClosedExactlyOnce ==
  /\ [](\A c \in ClientIds :
          /\ ClientSocket[c] # "closed_twice"
          /\ c \in IgtlClients => ClientSocket[c] = "open"
          /\ (c < ClientIdCounter /\ c \notin IgtlClients) => ClientSocket[c] = "closed")
  /\ [][\A c \in ClientIds :
          ClientSocket'[c] # ClientSocket[c] /\ ClientSocket[c] = "open"
            => MainErasing(c) \/ SenderErasing(c)]_vars
\* The sender thread is inside DisconnectClient for a client whose send
\* failed, and StopOpenIGTLinkService has meanwhile disconnected the same
\* client and closed its socket.
C11_Witness ==
  \E c \in ClientIds :
    /\ SenderDisconnecting(c)
    /\ serviceState = "stopping"
    /\ ClientSocket[c] = "closed"
    /\ ~sockAlive[c]

\* ------------------------------------------------ the shared id counter
\* ClientIdCounter is a static member (line 65): every server instance of
\* the process uses the same int, and each instance guards its accept block
\* with its own IgtlClientsMutex, which does not exclude the acceptor
\* thread of another instance.  Lines 239-246 of one instance, one access
\* to the counter at a time.
ServerInstances == 1..MaxServers
vOneServer == <<vService, vMain, accPc, IgtlClients, vRecord, ClientInfo,
                MessageResponseQueue, LastSentTrackedFrameTimestamp, mutexHeld, vSender,
                vReceiver, vProcessor, vCmdHistory, vChannel, sockAlive, wire, vTracker>>
\* What the tracker device does not touch.
vServers == <<vService, vMain, accPc, vRegistry, vRecord, ClientInfo,
              MessageResponseQueue, LastSentTrackedFrameTimestamp, mutexHeld, vSender,
              vReceiver, vProcessor, vCmdHistory, vChannel, sockAlive, wire, vInstances>>

\* Lines 236-242: a connection arrived, the instance's own mutex is taken
\* and a record is appended to its list.
AcceptConnection(s) ==
  /\ acceptPc[s] = "wait"
  /\ Len(serverClients[s]) < MaxAccepts
  /\ acceptPc' = [acceptPc EXCEPT ![s] = "assign"]
  /\ UNCHANGED <<vOneServer, ClientIdCounter, acceptReg, serverClients>>

\* Line 245: client->ClientId = self->ClientIdCounter.
AssignClientId(s) ==
  /\ acceptPc[s] = "assign"
  /\ serverClients' = [serverClients EXCEPT ![s] = Append(@, ClientIdCounter)]
  /\ acceptPc' = [acceptPc EXCEPT ![s] = "load"]
  /\ UNCHANGED <<vOneServer, ClientIdCounter, acceptReg>>

\* Line 246, self->ClientIdCounter++ on a plain int: the load ...
IncrementLoad(s) ==
  /\ acceptPc[s] = "load"
  /\ acceptReg' = [acceptReg EXCEPT ![s] = ClientIdCounter]
  /\ acceptPc' = [acceptPc EXCEPT ![s] = "store"]
  /\ UNCHANGED <<vOneServer, ClientIdCounter, serverClients>>

\* ... and the store; lines 247-262 do not touch the counter.
IncrementStore(s) ==
  /\ acceptPc[s] = "store"
  /\ ClientIdCounter' = acceptReg[s] + 1
  /\ acceptPc' = [acceptPc EXCEPT ![s] = "wait"]
  /\ UNCHANGED <<vOneServer, acceptReg, serverClients>>

NextCounter ==
  \/ \E s \in ServerInstances : AcceptConnection(s)
  \/ \E s \in ServerInstances : AssignClientId(s)
  \/ \E s \in ServerInstances : IncrementLoad(s)
  \/ \E s \in ServerInstances : IncrementStore(s)
SpecCounter == InitConstructed /\ [][NextCounter]_vars

\* C12: every accepted connection gets a client id above every id assigned
\* before it, so the ids of all the records of the process are distinct:
\* the ids of one instance increase strictly in the order of its list, and
\* no id of one instance is an id of another, also when two instances
\* accept connections concurrently.
C12_ClientIdsStrictlyIncreasing ==
  /\ \A s \in ServerInstances :
       \A i, j \in 1..Len(serverClients[s]) :
         i < j => serverClients[s][i] < serverClients[s][j]
  /\ \A s, t \in ServerInstances :
       s # t => Range(serverClients[s]) \cap Range(serverClients[t]) = {}

\* ------------------------------------------------- tracking data requests
\* The service with one client, which sends up to MaxOddMsgs
\* StartTrackingData messages while the device acquires frames.
TrackingInputs(c) ==
  {NoHeader} \cup
    (IF oddSent[c] < MaxOddMsgs
     THEN {PlainHeader("STT_TDATA", ok, 1) : ok \in BOOLEAN}
     ELSE {})

NextTracking ==
  \/ \E c \in ClientIds : \E m \in TrackingInputs(c) : ReceiverLoop(c, m)
  \/ \E c \in ClientIds : ReceiverLockForVersion(c)
  \/ \E c \in ClientIds : ReceiverSetVersion(c)
  \/ \E c \in ClientIds : HandleStartTracking(c)
  \/ \E c \in ClientIds : QueueMessageResponseLockClients(c)
  \/ \E c \in ClientIds : QueueMessageResponseFind(c)
  \/ \E c \in ClientIds : QueueMessageResponseLockQueue(c)
  \/ \E c \in ClientIds : QueueMessageResponsePush(c)
  \/ SenderLoop(1)
  \/ SendMessageResponsesLockQueue(1)
  \/ SendMessageResponsesLockClients(1)
  \/ SendMessageResponsesEntry(1)
  \/ SendMessageResponsesClear(1)
  \/ SendCommandResponsesPop(1)
  \/ \E n \in 1..MaxNumberOfIgtlMessagesToSend : GetFrames(1, n)
  \/ NoNewFrames(1)
  \/ SendTrackedFrameLock(1)
  \/ SendTrackedFrame(1)
  \/ Tick
  \/ AcquireFrame
SpecTracking == InitServing(1) /\ [][NextTracking]_vars

\* The places of the RTS_TDATA acknowledgements in what client c was sent.
AckPlaces(c) == {k \in 1..Len(wire[c]) : wire[c][k].kind = "RTS_TDATA"}
\* The first message after place k that is not another acknowledgement.
NextAfterAck(c, k) ==
  LET later == {j \in (k + 1)..Len(wire[c]) : wire[c][j].kind # "RTS_TDATA"} IN
    IF later = {} THEN "none" ELSE wire[c][SetMin(later)].kind

PortStatusBits ==
  {"TOOL_IN_PORT", "INITIALIZED", "ENABLED", "OUT_OF_VOLUME",
   "PARTIALLY_IN_VOLUME", "SWITCH_1_ON"}
\* Line 501.
ndiPortStatusValidFlags == {"TOOL_IN_PORT", "INITIALIZED", "ENABLED"}

\* Lines 499-524 of InternalUpdate: NDI port status and transform-absent
\* flag to the published tool status.  The two tests of the else branch
\* are separate if statements, the second assigning after the first.
ToolFlags(ndiPortStatus, ndiToolAbsent) ==
  IF ndiPortStatus \cap ndiPortStatusValidFlags # ndiPortStatusValidFlags
  THEN "TOOL_MISSING"
  ELSE LET afterAbsentTest == IF ndiToolAbsent THEN "TOOL_OUT_OF_VIEW" ELSE "TOOL_OK" IN
         IF "OUT_OF_VOLUME" \in ndiPortStatus THEN "TOOL_OUT_OF_VOLUME" ELSE afterAbsentTest

\* The device answers the TX command (lines 418-425) with some port status
\* and transform for the tool's handle.
DeviceRepliesToTX(status, absent) ==
  /\ ~txReply.valid
  /\ txReply' = [status |-> status, absent |-> absent, valid |-> TRUE]
  /\ UNCHANGED <<toolUpdate, vStrays, vDriver, vCalls, vServers>>

\* Lines 494-560 for a tool with a port handle above 0: the reply is read
\* (lines 494-496), converted and handed to ToolTimeStampedUpdate.
InternalUpdateTool ==
  /\ txReply.valid
  /\ toolUpdate' = [status |-> txReply.status, absent |-> txReply.absent,
                    toolFlags |-> ToolFlags(txReply.status, txReply.absent)]
  /\ txReply' = NoReply
  /\ UNCHANGED <<vStrays, vDriver, vCalls, vServers>>

NextToolStatus ==
  \/ \E status \in SUBSET PortStatusBits : \E absent \in BOOLEAN :
       DeviceRepliesToTX(status, absent)
  \/ InternalUpdateTool
SpecToolStatus == InitConstructed /\ [][NextToolStatus]_vars

\* The status the tool should be published with.
StatedToolStatus(status, absent) ==
  IF ~(ndiPortStatusValidFlags \subseteq status) THEN "TOOL_MISSING"
  ELSE IF absent THEN "TOOL_OUT_OF_VIEW"
  ELSE IF "OUT_OF_VOLUME" \in status THEN "TOOL_OUT_OF_VOLUME"
  ELSE "TOOL_OK"

\* C14: for every combination of port status bits and transform-absent
\* flag, the published status is MISSING unless TOOL_IN_PORT, INITIALIZED
\* and ENABLED are all set, otherwise OUT_OF_VIEW when the transform is
\* absent, otherwise OUT_OF_VOLUME when that bit is set, otherwise OK.
C14_PublishedToolStatus ==
  toolUpdate # NoUpdate
    => toolUpdate.toolFlags = StatedToolStatus(toolUpdate.status, toolUpdate.absent)

\* ----------------------------------------------------- NDI stray markers
\* Positions are in units of 0.1 mm.  A distance is kept as its square: the
\* code only compares distances with each other and with maxDistance, and
\* squares of these integers compare as their square roots do.
maxDistance == 2147483647
noMatchFlag == 2147483647
SquaredDistance(p, q) ==
  (p[1] - q[1]) * (p[1] - q[1]) + (p[2] - q[2]) * (p[2] - q[2]) + (p[3] - q[3]) * (p[3] - q[3])

\* GetDistanceStrays, lines 1278-1293: row j holds, for every observation i
\* (numbered from 0), the pair (i, distance to slot j), and maxDistance for
\* a slot at the zero vector.
GetDistanceStrays(lastPos, obs) ==
  [j \in StraySlots |->
     [i \in 1..Len(obs) |->
        [first |-> i - 1,
         second |-> IF lastPos[j] # ZeroVector
                    THEN SquaredDistance(lastPos[j], obs[i]) ELSE maxDistance]]]

\* SortDistanceStrays, lines 1296-1302: std::sort of each row by distance.
\* The order of pairs at the same distance is unspecified, so every order
\* sorted by distance is a possible result.  The row of a slot at the zero
\* vector holds maxDistance only and MatchStrays reads no index from it, so
\* one order stands for all its orders.
RowOrders ==
  [n \in 1..MaxStrayObservations |->
     {p \in [1..n -> 1..n] : \A a, b \in 1..n : a # b => p[a] # p[b]}]
SortedRows(row) ==
  IF row[1].second = maxDistance THEN {row}
  ELSE
  {[k \in 1..Len(row) |-> row[p[k]]] : p \in
     {q \in RowOrders[Len(row)] :
        \A a \in 1..(Len(row) - 1) : row[q[a]].second <= row[q[a + 1]].second}}
RECURSIVE SortChoicesFrom(_, _)
SortChoicesFrom(dist, j) ==
  IF j > MaxNumberOfStrays THEN {<<>>}
  ELSE {<<r>> \o rest : r \in SortedRows(dist[j]), rest \in SortChoicesFrom(dist, j + 1)}
\* A variant of SortDistanceStrays: the rows stay in observation order.
LeaveUnsorted(dist) == {dist}
SortDistanceStrays(dist) == SortChoicesFrom(dist, 1)

\* A variant of ScanCandidates: every slot keeps its nearest observation.
ScanCandidatesNearestOnly(i, j, dist, matched, minDist) ==
  [matched |-> matched, minDist |-> minDist, checkFromTheTop |-> FALSE]
\* MatchStrays, lines 1218-1263: slot i looks at its candidates from the
\* nearest on.  The result is the two vectors and checkFromTheTop.
RECURSIVE ScanCandidates(_, _, _, _, _)
ScanCandidates(i, j, dist, matched, minDist) ==
  LET numberOfStrays == Len(dist[i])
      gaveUp == [matched |-> [matched EXCEPT ![i] = noMatchFlag],
                 minDist |-> [minDist EXCEPT ![i] = maxDistance],
                 checkFromTheTop |-> FALSE]
      same == [matched |-> matched, minDist |-> minDist, checkFromTheTop |-> FALSE]
  IN
  IF j > numberOfStrays THEN same
  ELSE IF matched[i] = noMatchFlag THEN same
  ELSE IF dist[i][j].second = maxDistance THEN gaveUp
  ELSE LET betterMatchAlreadyExist ==
             \E k \in StraySlots :
               /\ i # k
               /\ dist[i][j].first = matched[k]
               /\ dist[i][j].second > minDist[k]
       IN IF ~betterMatchAlreadyExist
          THEN IF matched[i] # dist[i][j].first
               THEN [matched |-> [matched EXCEPT ![i] = dist[i][j].first],
                     minDist |-> [minDist EXCEPT ![i] = dist[i][j].second],
                     checkFromTheTop |-> TRUE]
               ELSE same
          ELSE IF j = numberOfStrays THEN gaveUp
          ELSE ScanCandidates(i, j + 1, dist, matched, minDist)

\* The while loop, lines 1207-1272: the slots in order, from the first slot
\* again after every change of a match.
RECURSIVE MatchFrom(_, _, _, _)
MatchFrom(i, dist, matched, minDist) ==
  IF i > MaxNumberOfStrays THEN matched
  ELSE LET r == ScanCandidates(i, 1, dist, matched, minDist) IN
         IF r.checkFromTheTop THEN MatchFrom(1, dist, r.matched, r.minDist)
         ELSE MatchFrom(i + 1, dist, r.matched, r.minDist)

\* MatchStrays, lines 1193-1275, on the sorted rows.
MatchStrays(dist) ==
  MatchFrom(1, dist,
            [i \in StraySlots |->
               IF dist[i][1].second # maxDistance THEN dist[i][1].first ELSE noMatchFlag],
            [i \in StraySlots |->
               IF dist[i][1].second # maxDistance THEN dist[i][1].second ELSE maxDistance])

\* UpdateLastStraysData, lines 1305-1334: matched slots take their
\* observation, the others the unused observations in order, the rest is
\* missing and keeps its position.
\* A variant of UnusedStrays: the unused observations, the last one first.
UnusedStraysLastFirst(numberOfStrays, matched) ==
  LET unused == SortedSeq({i \in 0..(numberOfStrays - 1) : \A k \in StraySlots : matched[k] # i})
  IN [k \in 1..Len(unused) |-> unused[Len(unused) + 1 - k]]
UnusedStrays(numberOfStrays, matched) ==
  SortedSeq({i \in 0..(numberOfStrays - 1) : \A k \in StraySlots : matched[k] # i})
RECURSIVE UpdateFrom(_, _, _, _, _, _)
UpdateFrom(i, matched, obs, unused, pos, status) ==
  IF i > MaxNumberOfStrays THEN [pos |-> pos, status |-> status]
  ELSE IF matched[i] # noMatchFlag
  THEN UpdateFrom(i + 1, matched, obs, unused,
                  [pos EXCEPT ![i] = obs[matched[i] + 1]], [status EXCEPT ![i] = "TOOL_OK"])
  ELSE IF unused # <<>>
  THEN UpdateFrom(i + 1, matched, obs, Tail(unused),
                  [pos EXCEPT ![i] = obs[Head(unused) + 1]], [status EXCEPT ![i] = "TOOL_OK"])
  ELSE UpdateFrom(i + 1, matched, obs, unused, pos, [status EXCEPT ![i] = "TOOL_MISSING"])
\* A variant of UpdateLastStraysData: a slot left without an observation
\* is put back to the zero vector.
UpdateClearingMissing(matched, obs, pos, status) ==
  LET updated == UpdateFrom(1, matched, obs, UnusedStrays(Len(obs), matched), pos, status)
  IN [pos |-> [i \in StraySlots |->
                 IF updated.status[i] = "TOOL_MISSING" THEN ZeroVector ELSE updated.pos[i]],
      status |-> updated.status]
\* A variant of UpdateLastStraysData: no slot takes an unused observation.
UpdateMatchedOnly(matched, obs, pos, status) ==
  UpdateFrom(1, matched, obs, <<>>, pos, status)
UpdateLastStraysData(matched, obs, pos, status) ==
  UpdateFrom(1, matched, obs, UnusedStrays(Len(obs), matched), pos, status)

\* The positions a TX:1801 reply can report for a passive stray.
StrayPoints ==
  {<<0, 0, 100>>, <<100, 0, 100>>, <<0, 100, 100>>, <<1, 0, 100>>, <<0, 102, 100>>, ZeroVector}
StrayObservations ==
  UNION {[1..n -> StrayPoints] : n \in 1..MaxStrayObservations}

\* Lines 442-470 of InternalUpdate: the strays of the reply are matched to
\* the slots, the slots updated and the frame counted.  A reply without
\* strays skips the matcher and the update of the slots (line 458).
MatchAndUpdateStrays(obs) ==
  /\ LastFrameNumber' = LastFrameNumber + 1
  /\ LastStraysPosBefore' = LastStraysPos
  /\ IF Len(obs) > 0
     THEN \E dist \in SortDistanceStrays(GetDistanceStrays(LastStraysPos, obs)) :
            LET matched == MatchStrays(dist)
                updated == UpdateLastStraysData(matched, obs, LastStraysPos, LastStraysStatus)
            IN /\ minMatchedIndex' = matched
               /\ LastStraysPos' = updated.pos
               /\ LastStraysStatus' = updated.status
     ELSE /\ minMatchedIndex' = <<>>
          /\ UNCHANGED <<LastStraysPos, LastStraysStatus>>
  /\ straysPos' = obs
  /\ UNCHANGED <<vToolStatus, vDriver, ledCall, vLocking, enableCall, vPinit, lastTick,
                 enqueued, vHistory, vServers>>
InternalUpdateStrays(obs) ==
  /\ LastFrameNumber < MaxUpdates
  /\ MatchAndUpdateStrays(obs)
  /\ UNCHANGED LastStraysStatusBefore

NextStrays == \E obs \in StrayObservations : InternalUpdateStrays(obs)
SpecStrays == InitConstructed /\ [][NextStrays]_vars

\* ------------------------------------------------ the matcher, step by step
\* In a step of InternalUpdateStrays the unprimed slots are the previous
\* positions P, straysPos' the observations C, and the primed slots and
\* minMatchedIndex' the result.
ObservedSlots == {i \in StraySlots : LastStraysPos[i] # ZeroVector}
ObservationIndices == 0..(Len(straysPos') - 1)
\* The slots that got observation o in this step, by match or as leftover.
SlotsGiven(o) ==
  {i \in StraySlots :
     \/ minMatchedIndex'[i] = o
     \/ /\ minMatchedIndex'[i] = noMatchFlag
        /\ LastStraysStatus'[i] = "TOOL_OK"
        /\ LastStraysPos'[i] = straysPos'[o + 1]
        /\ \A k \in StraySlots : minMatchedIndex'[k] # o}
\* Slot i was left without an observation in this step.
LeftWithout(i) == \A o \in ObservationIndices : i \notin SlotsGiven(o)
\* The squared distance from the previous position of slot i to observation o.
SlotToObservation(i, o) == SquaredDistance(LastStraysPos[i], straysPos'[o + 1])
\* Slot i holds observation o by smaller distance: a slot nearer to o holds
\* an observation at least as near to it, and a slot holding o too is at
\* the same distance from it.
WonBySmallerDistance(i, o) ==
  \A k \in ObservedSlots \ {i} :
    /\ SlotToObservation(k, o) < SlotToObservation(i, o)
         => \E q \in ObservationIndices :
              /\ minMatchedIndex'[k] = q
              /\ q # o
              /\ SlotToObservation(k, q) <= SlotToObservation(k, o)
    /\ minMatchedIndex'[k] = o => SlotToObservation(k, o) = SlotToObservation(i, o)
FewerObservationsThanSlots == Len(straysPos') < Cardinality(ObservedSlots)

SameAsPrevious == straysPos' = LastStraysPos
\* No two previously observed slots are at the same position.
DistinctObserved == \A i, k \in ObservedSlots : i # k => LastStraysPos[i] # LastStraysPos[k]
IdentityAssignment ==
  \A i \in StraySlots :
    /\ i \in SlotsGiven(i - 1)
    /\ LastStraysPos'[i] = LastStraysPos[i]
    /\ LastStraysStatus'[i] = "TOOL_OK"

NearestObservations(p, obs) ==
  {o \in 0..(Len(obs) - 1) :
     \A q \in 0..(Len(obs) - 1) :
       SquaredDistance(p, obs[o + 1]) <= SquaredDistance(p, obs[q + 1])}
\* Uncontested input: every observed slot has one nearest observation and
\* no two observed slots have the same one.
Uncontested(lastPos, obs) ==
  LET observed == {i \in StraySlots : lastPos[i] # ZeroVector}
  IN /\ \A i \in observed : Cardinality(NearestObservations(lastPos[i], obs)) = 1
     /\ \A i, k \in observed :
          i # k => NearestObservations(lastPos[i], obs) # NearestObservations(lastPos[k], obs)
\* The observation lists that differ from obs by a swap of two observations.
Swaps(obs) ==
  {[obs EXCEPT ![a] = obs[b], ![b] = obs[a]] : a, b \in 1..Len(obs)} \ {obs}
\* The slot positions an update with observations obs can leave.
PositionsAfter(lastPos, lastStatus, obs) ==
  {UpdateLastStraysData(MatchStrays(dist), obs, lastPos, lastStatus).pos :
     dist \in SortDistanceStrays(GetDistanceStrays(lastPos, obs))}
\* Every observed slot is matched to the observation nearest to it, which
\* makes the sum of the slot-to-observation distances the least possible.
MinimumTotalDistance ==
  \A i \in ObservedSlots :
    /\ minMatchedIndex'[i] \in ObservationIndices
    /\ \A o \in ObservationIndices :
         SlotToObservation(i, minMatchedIndex'[i]) <= SlotToObservation(i, o)

\* C17 (as stated): on uncontested inputs, swapping two observations in
\* the observation list yields the same resulting position for every slot,
\* and the assignment has the minimum total slot-to-observation distance
\* (taken with at least one previously observed slot).
C17_SwapKeepsEverySlot ==
  [][(ObservedSlots # {} /\ Uncontested(LastStraysPos, straysPos'))
       => /\ \A swapped \in Swaps(straysPos') :
               \A pos \in PositionsAfter(LastStraysPos, LastStraysStatus, swapped) :
                 \A i \in StraySlots : pos[i] = LastStraysPos'[i]
          /\ MinimumTotalDistance]_vars

\* C17 (amended): on uncontested inputs, swapping two observations in the
\* observation list yields the same resulting position for every previously
\* observed slot, and every observed slot is matched to its nearest
\* observation, so the assignment has the minimum total distance.
C17_SwapKeepsObservedSlots ==
  [][Uncontested(LastStraysPos, straysPos')
       => /\ \A swapped \in Swaps(straysPos') :
               \A pos \in PositionsAfter(LastStraysPos, LastStraysStatus, swapped) :
                 \A i \in ObservedSlots : pos[i] = LastStraysPos'[i]
          /\ MinimumTotalDistance]_vars
\* An update on an uncontested input with two observed slots and three
\* observations, the nearest ones not in slot order, has happened.
C17_Witness ==
  /\ LastFrameNumber = MaxUpdates
  /\ Uncontested(LastStraysPosBefore, straysPos)
  /\ Len(straysPos) = MaxNumberOfStrays
  /\ Cardinality({i \in StraySlots : LastStraysPosBefore[i] # ZeroVector}) = 2
  /\ \E i \in StraySlots : minMatchedIndex[i] \notin {i - 1, noMatchFlag}
  /\ \E i \in StraySlots : LastStraysPos[i] # LastStraysPosBefore[i]

\* ------------------------------------------------------ the tracker driver
\* The device keeps a state for each port handle: "free", "occupied" (a
\* tool or a requested handle, PINIT pending), "initialized" (PENA
\* pending), "enabled", "disabled" (after PDIS).  What the device answers
\* is not in the source: every command that the source tests with
\* ndiGetError can succeed or fail.
\* The wired tool without ROM can sit on a splitter: the device then lists
\* its handle only after the tools have been enabled (lines 710-711).
DeviceResponses ==
  [tstop : BOOLEAN, phrq : BOOLEAN, pvwr : BOOLEAN, tstart : BOOLEAN, splitter : BOOLEAN]
OnSplitter(ports, r) == r.splitter /\ ports[WiredHandle("wired")] = "occupied"
\* The handles the device lists before and after the PENA commands.
BeforeEnable(ports, r) ==
  IF OnSplitter(ports, r) THEN [ports EXCEPT ![WiredHandle("wired")] = "free"] ELSE ports
AfterEnable(st, ports, r) ==
  IF OnSplitter(ports, r)
  THEN [st EXCEPT !.ports = [st.ports EXCEPT ![WiredHandle("wired")] = "occupied"]]
  ELSE st

\* UpdatePortHandle, lines 929-976.  A wired tool takes the handle PHSR:00
\* lists at its port and the call fails when none is (lines 955-959); a
\* wireless tool takes the handle of PHRQ before the error is looked at
\* (lines 963-965), taken here as 0 when PHRQ failed.
UpdatePortHandle(t, desc, ports, phrqOkay) ==
  IF WiredPortNumber(t) >= 0
  THEN IF ports[WiredHandle(t)] # "free"
       THEN [desc |-> [desc EXCEPT ![t].PortHandle = WiredHandle(t)], ports |-> ports,
             ok |-> TRUE]
       ELSE [desc |-> desc, ports |-> ports, ok |-> FALSE]
  ELSE LET free == {h \in PhrqHandles : ports[h] = "free"} IN
       IF phrqOkay /\ free # {}
       THEN LET portHandle == CHOOSE h \in free : \A k \in free : h <= k IN
            [desc |-> [desc EXCEPT ![t].PortHandle = portHandle],
             ports |-> [ports EXCEPT ![portHandle] = "occupied"], ok |-> TRUE]
       ELSE [desc |-> [desc EXCEPT ![t].PortHandle = 0], ports |-> ports, ok |-> FALSE]

\* SendSromToTracker, lines 980-1007: nothing to load without a ROM image.
SendSromToTracker(t, pvwrOkay) == VirtualSROM(t) => pvwrOkay

\* EnableToolPorts, lines 639-654 (withRom) and 712-727 (wired tools
\* without ROM): the first failure returns PLUS_FAIL at once.
RECURSIVE SetPortHandles(_, _, _, _)
SetPortHandles(k, withRom, st, r) ==
  IF k > Len(ToolOrder) \/ st.returned THEN st
  ELSE LET t == ToolOrder[k]
           selected == IF withRom THEN VirtualSROM(t)
                       ELSE WiredPortNumber(t) >= 0 /\ ~VirtualSROM(t)
           u == UpdatePortHandle(t, st.desc, st.ports, r.phrq)
       IN IF ~selected THEN SetPortHandles(k + 1, withRom, st, r)
          ELSE IF ~u.ok \/ ~SendSromToTracker(t, r.pvwr)
          THEN [st EXCEPT !.desc = u.desc, !.ports = u.ports,
                          !.status = "PLUS_FAIL", !.returned = TRUE]
          ELSE SetPortHandles(k + 1, withRom,
                              [st EXCEPT !.desc = u.desc, !.ports = u.ports], r)

\* Lines 656-677: PINIT for the handles PHSR:02 lists; pinitOkay are those
\* for which it succeeds.
PendingInit(ports) == {h \in PortHandles : ports[h] = "occupied"}
InitializePorts(st, pinitOkay) ==
  [st EXCEPT !.ports = [h \in PortHandles |->
                          IF h \in pinitOkay THEN "initialized" ELSE st.ports[h]],
             !.status = IF pinitOkay # PendingInit(st.ports) THEN "PLUS_FAIL" ELSE st.status]
\* Lines 679-707: PENA for the handles PHSR:03 lists.
PendingEnable(ports) == {h \in PortHandles : ports[h] \in {"initialized", "disabled"}}
EnablePorts(st, penaOkay) ==
  [st EXCEPT !.ports = [h \in PortHandles |->
                          IF h \in penaOkay THEN "enabled" ELSE st.ports[h]],
             !.status = IF penaOkay # PendingEnable(st.ports) THEN "PLUS_FAIL" ELSE st.status]
\* Lines 729-785: PHINF for the handle of each descriptor; an error leaves
\* PortEnabled as it was and fails the call (lines 745-750); a port that is
\* not enabled sets the inner variable status (lines 777-784), not the
\* status that is returned.
UpdateToolInfo(st) ==
  LET known(t) == /\ st.desc[t].PortHandle \in PortHandles
                  /\ st.ports[st.desc[t].PortHandle] # "free"
  IN [st EXCEPT !.desc = [t \in Tools |->
                            IF known(t)
                            THEN [st.desc[t] EXCEPT
                                    !.PortEnabled = (st.ports[st.desc[t].PortHandle] = "enabled")]
                            ELSE st.desc[t]],
                !.status = IF \E t \in Tools : ~known(t) THEN "PLUS_FAIL" ELSE st.status]
\* Lines 787-797.
RestartTracking(st, tracking, r) ==
  IF tracking = 1
  THEN [st EXCEPT !.commands = Append(st.commands, "TSTART"),
                  !.status = IF r.tstart THEN st.status ELSE "PLUS_FAIL"]
  ELSE st

\* EnableToolPorts, lines 603-800: what the call can leave, one outcome
\* for each way the device can answer.  No port is waiting to be freed
\* (lines 619-634): tools are not unplugged here.
EnableToolPorts(desc, ports, tracking) ==
  UNION {
    LET st0 == [desc |-> desc, ports |-> BeforeEnable(ports, r), returned |-> FALSE,
                commands |-> IF tracking = 1 THEN <<"TSTOP">> ELSE <<>>,
                status |-> IF tracking = 1 /\ ~r.tstop THEN "PLUS_FAIL" ELSE "PLUS_SUCCESS"]
        st1 == SetPortHandles(1, TRUE, st0, r)
    IN IF st1.returned THEN {AfterEnable(st1, ports, r)}
       ELSE UNION {
         LET st2 == InitializePorts(st1, pinitOkay) IN
         {LET st3 == SetPortHandles(1, FALSE,
                                    AfterEnable(EnablePorts(st2, penaOkay), ports, r), r)
          IN IF st3.returned THEN st3
             ELSE RestartTracking(UpdateToolInfo(st3), tracking, r)
          : penaOkay \in SUBSET PendingEnable(st2.ports)}
         : pinitOkay \in SUBSET PendingInit(st1.ports)}
    : r \in DeviceResponses}

\* ndiOpen gives a handle that is not open, while the process can hold one more.
CanOpen == Cardinality(openHandles) < MaxOpenHandles
NewHandle == CHOOSE h \in 1..MaxOpenHandles : h \notin openHandles
\* INIT (line 259) resets the device: the plugged tools wait for PINIT.
PortsAfterInit ==
  [h \in PortHandles |->
     IF \E t \in plugged : WiredHandle(t) = h THEN "occupied" ELSE "free"]

\* Probe, lines 126-175.
Probe(probeOkay, openOkay) ==
  /\ IF IsDeviceTracking = 1 \/ ~probeOkay
     THEN UNCHANGED <<Device, openedWhileOpen>>
     ELSE /\ Device' = 0
          /\ openedWhileOpen' = (openedWhileOpen \/ (openOkay /\ CanOpen /\ openHandles # {}))
  /\ UNCHANGED <<IsDeviceTracking, NdiToolDescriptors, Connected, openHandles,
                 devicePorts, plugged, Recording>>
  /\ UNCHANGED <<vToolStatus, vStrays, vCalls, vServers>>

\* Command, lines 184-212.
Command(openOkay) ==
  /\ IF Device # 0
     THEN UNCHANGED <<Device, openedWhileOpen>>
     ELSE /\ Device' = 0
          /\ openedWhileOpen' = (openedWhileOpen \/ (openOkay /\ CanOpen /\ openHandles # {}))
  /\ UNCHANGED <<IsDeviceTracking, NdiToolDescriptors, Connected, openHandles,
                 devicePorts, plugged, Recording>>
  /\ UNCHANGED <<vToolStatus, vStrays, vCalls, vServers>>

\* InternalConnect, lines 216-340, with a valid baud rate and no
\* measurement volume.  The device base class calls it when the device is
\* not connected, and keeps the device connected when it returns success.
InternalConnect(openOkay, initOkay) ==
  /\ ~Connected
  /\ IF ~(openOkay /\ CanOpen)
     THEN /\ Device' = 0
          /\ UNCHANGED <<NdiToolDescriptors, Connected, openHandles, openedWhileOpen,
                         devicePorts, enableCall>>
     ELSE /\ openedWhileOpen' = (openedWhileOpen \/ openHandles # {})
          /\ IF ~initOkay
             THEN /\ Device' = 0
                  /\ UNCHANGED <<NdiToolDescriptors, Connected, openHandles, devicePorts,
                                 enableCall>>
             ELSE \E out \in EnableToolPorts(NdiToolDescriptors, PortsAfterInit,
                                             IsDeviceTracking) :
                    /\ Device' = NewHandle
                    /\ openHandles' = openHandles \cup {NewHandle}
                    /\ NdiToolDescriptors' = out.desc
                    /\ devicePorts' = out.ports
                    /\ Connected' = (out.status = "PLUS_SUCCESS")
                    /\ enableCall' = [tracking |-> IsDeviceTracking,
                                      commands |-> out.commands, status |-> out.status]
  /\ UNCHANGED <<IsDeviceTracking, plugged, Recording>>
  /\ UNCHANGED <<vToolStatus, vStrays, ledCall, vLocking, vLater, vServers>>

\* ClearVirtualSromInTracker, lines 1010-1023, for every descriptor (lines
\* 345-348), then DisableToolPorts, lines 804-847.
ClearVirtualSromInTracker(desc) ==
  [t \in Tools |-> IF VirtualSROM(t) THEN [PortHandle |-> 0, PortEnabled |-> FALSE]
                   ELSE desc[t]]
DisableToolPorts(desc) == [t \in Tools |-> [desc[t] EXCEPT !.PortEnabled = FALSE]]
\* The device after the PHF of line 1018 and the PDIS of line 823.
PortsAfterDisconnect ==
  [h \in PortHandles |->
     IF \E t \in Tools : VirtualSROM(t) /\ NdiToolDescriptors[t].PortHandle = h THEN "free"
     ELSE IF devicePorts[h] = "enabled" THEN "disabled" ELSE devicePorts[h]]

\* InternalDisconnect, lines 343-363.  The base class calls it for a
\* connected device, after recording has stopped.
vCallsButHistory == <<ledCall, vLocking, enableCall, vPinit, vAfterPinit, enqueued>>
InternalDisconnectSteps ==
  /\ Connected
  /\ IsDeviceTracking = 0
  /\ NdiToolDescriptors' = DisableToolPorts(ClearVirtualSromInTracker(NdiToolDescriptors))
  /\ devicePorts' = PortsAfterDisconnect
  /\ openHandles' = openHandles \ {Device}
  /\ Device' = 0
  /\ Connected' = FALSE
  /\ UNCHANGED <<IsDeviceTracking, openedWhileOpen, plugged, Recording>>
  /\ UNCHANGED <<vToolStatus, vStrays, vCallsButHistory, vServers>>
InternalDisconnect ==
  /\ Device # 0
  /\ InternalDisconnectSteps
  /\ UNCHANGED vHistory

\* InternalStartRecording, lines 367-387.  The base class sets Recording
\* when it returns success.
InternalStartRecordingSteps(tstartOkay) ==
  /\ Connected
  /\ IF IsDeviceTracking = 1
     THEN /\ Recording' = TRUE
          /\ UNCHANGED <<Device, IsDeviceTracking, openHandles>>
     ELSE IF tstartOkay
     THEN /\ IsDeviceTracking' = 1
          /\ Recording' = TRUE
          /\ UNCHANGED <<Device, openHandles>>
     ELSE /\ openHandles' = openHandles \ {Device}
          /\ Device' = 0
          /\ UNCHANGED <<IsDeviceTracking, Recording>>
  /\ UNCHANGED <<NdiToolDescriptors, Connected, openedWhileOpen, devicePorts, plugged>>
  /\ UNCHANGED <<vToolStatus, vStrays, vCallsButHistory, vServers>>
InternalStartRecording(tstartOkay) ==
  /\ Device # 0
  /\ InternalStartRecordingSteps(tstartOkay)
  /\ UNCHANGED vHistory

\* InternalStopRecording, lines 390-406.  The base class clears Recording
\* when it returns success.
InternalStopRecordingSteps ==
  /\ Connected
  /\ IsDeviceTracking = 1
  /\ IsDeviceTracking' = IF Device = 0 THEN IsDeviceTracking ELSE 0
  /\ Recording' = IF Device = 0 THEN Recording ELSE FALSE
  /\ UNCHANGED <<Device, NdiToolDescriptors, Connected, openHandles, openedWhileOpen,
                 devicePorts, plugged>>
  /\ UNCHANGED <<vToolStatus, vStrays, vCallsButHistory, vServers>>
InternalStopRecording ==
  /\ InternalStopRecordingSteps
  /\ UNCHANGED vHistory

\* A wired tool is plugged in; a device in a session lists its handle.
PlugTool(t) ==
  /\ t \notin plugged
  /\ plugged' = plugged \cup {t}
  /\ devicePorts' = IF Device # 0 THEN [devicePorts EXCEPT ![WiredHandle(t)] = "occupied"]
                    ELSE devicePorts
  /\ UNCHANGED <<Device, IsDeviceTracking, NdiToolDescriptors, Connected, openHandles,
                 openedWhileOpen, Recording>>
  /\ UNCHANGED <<vToolStatus, vStrays, vCalls, vServers>>

\* InternalUpdate, lines 570-576: the system status reports an occupied
\* port and the tool ports are enabled again; the result is not looked at.
InternalUpdatePortOccupied ==
  /\ IsDeviceTracking = 1
  /\ Device # 0
  /\ PendingInit(devicePorts) # {}
  /\ \E out \in EnableToolPorts(NdiToolDescriptors, devicePorts, IsDeviceTracking) :
       /\ NdiToolDescriptors' = out.desc
       /\ devicePorts' = out.ports
       /\ enableCall' = [tracking |-> IsDeviceTracking,
                         commands |-> out.commands, status |-> out.status]
  /\ UNCHANGED <<Device, IsDeviceTracking, Connected, openHandles, openedWhileOpen, plugged,
                 Recording>>
  /\ UNCHANGED <<vToolStatus, vStrays, ledCall, vLocking, vLater, vServers>>

NextDriver ==
  \/ \E probeOkay, openOkay \in BOOLEAN : Probe(probeOkay, openOkay)
  \/ \E openOkay \in BOOLEAN : Command(openOkay)
  \/ \E openOkay, initOkay \in BOOLEAN : InternalConnect(openOkay, initOkay)
  \/ InternalDisconnect
  \/ \E tstartOkay \in BOOLEAN : InternalStartRecording(tstartOkay)
  \/ InternalStopRecording
  \/ \E t \in WiredTools : PlugTool(t)
  \/ InternalUpdatePortOccupied
SpecDriver == InitConstructed /\ [][NextDriver]_vars

\* PINIT and PENA have succeeded for port handle h since the device was
\* initialized and the handle given out.
CompletedPinitAndPena(h) == h \in PortHandles /\ devicePorts[h] \in {"enabled", "disabled"}

\* C18: in every reachable driver state, a tool descriptor whose port
\* handle is above 0 has had PINIT and PENA completed successfully for that
\* handle.
C18_PortHandleImpliesPinitPena ==
  \A t \in Tools :
    NdiToolDescriptors[t].PortHandle > 0
      => CompletedPinitAndPena(NdiToolDescriptors[t].PortHandle)

\* C19: across any sequence of Probe, Command, InternalConnect,
\* InternalStartRecording, InternalStopRecording and InternalDisconnect
\* calls, the serial device is never opened while a handle opened earlier
\* is still open: at most one open, un-closed handle exists at any time,
\* also after an InternalConnect that failed in EnableToolPorts.
C19_AtMostOneOpenHandle ==
  /\ ~openedWhileOpen
  /\ Cardinality(openHandles) <= 1

\* C20: after InternalDisconnect returns, every tool descriptor (wireless,
\* wired with virtual ROM, wired without ROM) has port handle 0 and enabled
\* flag false.
C20_DisconnectClearsDescriptors ==
  [][(Connected /\ ~Connected')
       => \A t \in Tools : /\ NdiToolDescriptors'[t].PortHandle = 0
                           /\ ~NdiToolDescriptors'[t].PortEnabled]_vars

\* C21: EnableToolPorts returns failure whenever the identity refresh
\* finds a descriptor whose port status lacks the ENABLED bit; a connect
\* that succeeded has therefore left every descriptor enabled.
C21_NotEnabledFailsEnableToolPorts ==
  [][(~Connected /\ Connected')
       => \A t \in Tools : NdiToolDescriptors'[t].PortEnabled]_vars

\* ------------------------------------------------------- Beep, SetToolLED
\* Beep, lines 850-875: refused while recording; n is brought into 0..9.
BeepResult(recording, n) ==
  IF recording THEN [status |-> "PLUS_FAIL", command |-> <<>>]
  ELSE [status |-> "PLUS_SUCCESS",
        command |-> <<"BEEP", IF n > 9 THEN 9 ELSE IF n < 0 THEN 0 ELSE n>>]
\* A variant of SetToolLEDResult with the guard of Beep.
SetToolLEDRefusedWhenRecording(recording, desc, sourceId, led, state) ==
  IF recording \/ sourceId \notin Tools \/ desc[sourceId].PortHandle <= 0
     \/ state \notin {"TR_LED_OFF", "TR_LED_ON", "TR_LED_FLASH"}
  THEN [status |-> "PLUS_FAIL", command |-> <<>>]
  ELSE [status |-> "PLUS_SUCCESS", command |-> <<"LED", desc[sourceId].PortHandle, led + 1, state>>]
\* SetToolLED, lines 878-926: refused when not recording (lines 880-884),
\* for an unknown tool, a port handle not above 0 or an unknown LED state.
SetToolLEDResult(recording, desc, sourceId, led, state) ==
  IF ~recording THEN [status |-> "PLUS_FAIL", command |-> <<>>]
  ELSE IF sourceId \notin Tools THEN [status |-> "PLUS_FAIL", command |-> <<>>]
  ELSE IF desc[sourceId].PortHandle <= 0 THEN [status |-> "PLUS_FAIL", command |-> <<>>]
  ELSE IF state \notin {"TR_LED_OFF", "TR_LED_ON", "TR_LED_FLASH"}
  THEN [status |-> "PLUS_FAIL", command |-> <<>>]
  ELSE [status |-> "PLUS_SUCCESS",
        command |-> <<"LED", desc[sourceId].PortHandle, led + 1,
                      CASE state = "TR_LED_OFF" -> "NDI_BLANK"
                        [] state = "TR_LED_ON" -> "NDI_SOLID"
                        [] state = "TR_LED_FLASH" -> "NDI_FLASH">>]

\* Beep is called on an open device: the command of line 865 needs one.
Beep(n) ==
  /\ Device # 0
  /\ ledCall' = [call |-> "Beep", recording |-> Recording,
                 status |-> BeepResult(Recording, n).status,
                 command |-> BeepResult(Recording, n).command]
  /\ UNCHANGED <<vToolStatus, vStrays, vDriver, vLocking, enableCall, vLater, vServers>>
SetToolLED(sourceId, led, state) ==
  /\ LET res == SetToolLEDResult(Recording, NdiToolDescriptors, sourceId, led, state)
     IN ledCall' = [call |-> "SetToolLED", recording |-> Recording,
                    status |-> res.status, command |-> res.command]
  /\ UNCHANGED <<vToolStatus, vStrays, vDriver, vLocking, enableCall, vLater, vServers>>

BeepCounts == {-1, 3, 12}
LedStates == {"TR_LED_OFF", "TR_LED_ON", "TR_LED_FLASH", "unsupported"}
NextLed ==
  \/ \E t \in WiredTools : PlugTool(t)
  \/ \E openOkay, initOkay \in BOOLEAN : InternalConnect(openOkay, initOkay)
  \/ \E tstartOkay \in BOOLEAN : InternalStartRecording(tstartOkay)
  \/ InternalStopRecording
  \/ \E n \in BeepCounts : Beep(n)
  \/ \E sourceId \in Tools \cup {"unknown"} : \E state \in LedStates :
       SetToolLED(sourceId, 0, state)
SpecLed == InitConstructed /\ [][NextLed]_vars

\* C22 (as stated): SetToolLED is rejected, with no LED command, when
\* Recording is true, and this guard does not reject it when Recording is
\* false.
C22_SetToolLEDRejectedWhenRecording ==
  ledCall.call = "SetToolLED"
    => /\ ledCall.recording => (ledCall.status = "PLUS_FAIL" /\ ledCall.command = <<>>)
       /\ (/\ ~ledCall.recording
           /\ \E t \in Tools : NdiToolDescriptors[t].PortHandle > 0)
            => \E t \in Tools : \E state \in LedStates :
                 SetToolLEDResult(FALSE, NdiToolDescriptors, t, 0, state).status
                   = "PLUS_SUCCESS"

\* C22 (amended): SetToolLED is rejected, with no LED command, when
\* Recording is false; when Recording is true it is accepted for a known
\* tool with a port handle above 0 and a supported LED state, and sends
\* the LED command.  It is Beep that is rejected when Recording is true
\* and not rejected when Recording is false.
C22_SetToolLEDRejectedWhenNotRecording ==
  /\ ledCall.call = "SetToolLED"
       => /\ ~ledCall.recording
               => (ledCall.status = "PLUS_FAIL" /\ ledCall.command = <<>>)
          /\ ledCall.status = "PLUS_SUCCESS"
               => (ledCall.recording /\ ledCall.command # <<>> /\ ledCall.command[1] = "LED")
          /\ ledCall.recording
               => \A t \in Tools : \A state \in LedStates \ {"unsupported"} :
                    NdiToolDescriptors[t].PortHandle > 0
                      => SetToolLEDResult(TRUE, NdiToolDescriptors, t, 0, state).status
                           = "PLUS_SUCCESS"
  /\ ledCall.call = "Beep"
       => (ledCall.recording <=> ledCall.status = "PLUS_FAIL")
\* SetToolLED has sent an LED command while recording.
C22_Witness ==
  /\ ledCall.call = "SetToolLED"
  /\ ledCall.recording
  /\ ledCall.status = "PLUS_SUCCESS"
  /\ ledCall.command[1] = "LED"

\* ------------------------------------------- the device handle and UpdateMutex
\* ndiCommand sends a command and waits for its reply; a thread is in
\* flight between the two.  The driver variables a step leaves alone:
vDriverButDevice == <<IsDeviceTracking, NdiToolDescriptors, Connected, openedWhileOpen,
                      devicePorts, plugged, Recording>>
AllIdle == pollPc = "idle" /\ \A t \in CommandCallers : cmdPc[t] = "idle"

\* Command, line 188: the test of this->Device, before any lock.
CommandBegin(t) ==
  /\ cmdPc[t] = "idle"
  /\ cmdPc' = [cmdPc EXCEPT ![t] = IF Device # 0 THEN "lock" ELSE "open"]
  /\ UNCHANGED <<pollPc, UpdateMutex, inFlight, ledCall, enableCall, vLater, vDriver>>
  /\ UNCHANGED <<vToolStatus, vStrays, vServers>>
\* Line 190: the connected path takes UpdateMutex.
CommandLock(t) ==
  /\ cmdPc[t] = "lock"
  /\ UpdateMutex = Unlocked
  /\ UpdateMutex' = t
  /\ cmdPc' = [cmdPc EXCEPT ![t] = "send"]
  /\ UNCHANGED <<pollPc, inFlight, ledCall, enableCall, vLater, vDriver>>
  /\ UNCHANGED <<vToolStatus, vStrays, vServers>>
\* Lines 196-201: the not-connected path opens the device, with no lock.
CommandOpen(t, openOkay) ==
  /\ cmdPc[t] = "open"
  /\ IF openOkay /\ CanOpen
     THEN /\ Device' = NewHandle
          /\ openHandles' = openHandles \cup {NewHandle}
          /\ cmdPc' = [cmdPc EXCEPT ![t] = "send"]
     ELSE /\ Device' = 0
          /\ UNCHANGED openHandles
          /\ cmdPc' = [cmdPc EXCEPT ![t] = "close"]
  /\ UNCHANGED <<pollPc, UpdateMutex, inFlight, ledCall, enableCall, vLater, vDriverButDevice>>
  /\ UNCHANGED <<vToolStatus, vStrays, vServers>>
\* Lines 191 and 204: ndiCommand sends the command.
CommandSend(t) ==
  /\ cmdPc[t] = "send"
  /\ inFlight' = inFlight \cup {t}
  /\ cmdPc' = [cmdPc EXCEPT ![t] = "reply"]
  /\ UNCHANGED <<pollPc, UpdateMutex, ledCall, enableCall, vLater, vDriver>>
  /\ UNCHANGED <<vToolStatus, vStrays, vServers>>
\* ndiCommand returns the reply; the lock guard of line 190 ends with its
\* block (line 193), the other path goes on to ndiClose.
CommandReply(t) ==
  /\ cmdPc[t] = "reply"
  /\ inFlight' = inFlight \ {t}
  /\ IF UpdateMutex = t
     THEN /\ UpdateMutex' = Unlocked
          /\ cmdPc' = [cmdPc EXCEPT ![t] = "idle"]
     ELSE /\ UNCHANGED UpdateMutex
          /\ cmdPc' = [cmdPc EXCEPT ![t] = "close"]
  /\ UNCHANGED <<pollPc, ledCall, enableCall, vLater, vDriver>>
  /\ UNCHANGED <<vToolStatus, vStrays, vServers>>
\* Lines 206-208: ndiClose of this->Device as it is now, then Device = 0.
CommandClose(t) ==
  /\ cmdPc[t] = "close"
  /\ openHandles' = openHandles \ {Device}
  /\ Device' = 0
  /\ UpdateMutex' = IF UpdateMutex = t THEN Unlocked ELSE UpdateMutex
  /\ cmdPc' = [cmdPc EXCEPT ![t] = "idle"]
  /\ UNCHANGED <<pollPc, inFlight, ledCall, enableCall, vLater, vDriverButDevice>>
  /\ UNCHANGED <<vToolStatus, vStrays, vServers>>

\* The acquisition thread of the device base class takes UpdateMutex for
\* each call of InternalUpdate, which sends TX (lines 411-427).
PollLock ==
  /\ pollPc = "idle"
  /\ IsDeviceTracking = 1
  /\ UpdateMutex = Unlocked
  /\ UpdateMutex' = PollingThread
  /\ pollPc' = "send"
  /\ UNCHANGED <<cmdPc, inFlight, ledCall, enableCall, vLater, vDriver>>
  /\ UNCHANGED <<vToolStatus, vStrays, vServers>>
PollSend ==
  /\ pollPc = "send"
  /\ inFlight' = inFlight \cup {PollingThread}
  /\ pollPc' = "reply"
  /\ UNCHANGED <<cmdPc, UpdateMutex, ledCall, enableCall, vLater, vDriver>>
  /\ UNCHANGED <<vToolStatus, vStrays, vServers>>
PollReply ==
  /\ pollPc = "reply"
  /\ inFlight' = inFlight \ {PollingThread}
  /\ UpdateMutex' = Unlocked
  /\ pollPc' = "idle"
  /\ UNCHANGED <<cmdPc, ledCall, enableCall, vLater, vDriver>>
  /\ UNCHANGED <<vToolStatus, vStrays, vServers>>

\* The application connects and starts and stops recording between the
\* calls of Command.
NextMutex ==
  \/ \E t \in CommandCallers :
       \/ CommandBegin(t)
       \/ CommandLock(t)
       \/ \E openOkay \in BOOLEAN : CommandOpen(t, openOkay)
       \/ CommandSend(t)
       \/ CommandReply(t)
       \/ CommandClose(t)
  \/ PollLock
  \/ PollSend
  \/ PollReply
  \/ AllIdle /\ \E t \in WiredTools : PlugTool(t)
  \/ AllIdle /\ \E openOkay, initOkay \in BOOLEAN : InternalConnect(openOkay, initOkay)
  \/ AllIdle /\ \E tstartOkay \in BOOLEAN : InternalStartRecording(tstartOkay)
  \/ AllIdle /\ InternalStopRecording
SpecMutex == InitConstructed /\ [][NextMutex]_vars

\* C23: every access to the device handle is serialized by UpdateMutex: a
\* command/reply exchange of Command never interleaves with the TX
\* exchange of a polling tick nor with the exchange of another Command
\* call, on the connected and on the not-connected path of Command.
C23_ExchangesNeverInterleave == Cardinality(inFlight) <= 1

\* C24: whenever EnableToolPorts is entered while the device is tracking,
\* TSTOP is sent first and TSTART is sent again before it returns, on
\* every return path, the failure returns after a port handle lookup or
\* SROM upload error included.
C24_TrackingRestartedOnEveryReturn ==
  enableCall.tracking = 1 => enableCall.commands = <<"TSTOP", "TSTART">>

\* ------------------------------------ EnableToolPorts: the PINIT loop, step by step
vDriverButPorts == <<Device, IsDeviceTracking, NdiToolDescriptors, Connected, openHandles,
                     openedWhileOpen, plugged, Recording>>
\* PHSR lists the handles in ascending order.
HandleOrder == [i \in 1..Cardinality(PortHandles) |-> i]
\* Multi-channel tools: the PINIT of a handle makes the device give out
\* the handle of the tool's second channel.
SecondChannel(h) == IF h = 1 THEN {5} ELSE IF h = 4 THEN {3} ELSE {}
ChannelHandles == UNION {SecondChannel(h) : h \in PortHandles}

\* A tool is plugged in or a handle requested, before EnableToolPorts runs.
PortOccupied(h) ==
  /\ pinitPc = "idle"
  /\ h \notin ChannelHandles
  /\ devicePorts[h] = "free"
  /\ devicePorts' = [devicePorts EXCEPT ![h] = "occupied"]
  /\ UNCHANGED <<vPinit, vDriverButPorts, ledCall, vLocking, enableCall,
                 vAfterPinit, enqueued, vHistory>>
  /\ UNCHANGED <<vToolStatus, vStrays, vServers>>
\* Lines 658-660: errnum and ntools start at 0.
PinitBegin ==
  /\ pinitPc = "idle"
  /\ pinitPc' = "phsr"
  /\ errnum' = 0
  /\ ntools' = 0
  /\ UNCHANGED <<pinitList, vDriver, ledCall, vLocking, enableCall,
                 vAfterPinit, enqueued, vHistory>>
  /\ UNCHANGED <<vToolStatus, vStrays, vServers>>
\* Lines 662-663: PHSR:02 lists the handles that wait for PINIT.
PinitPHSR ==
  /\ pinitPc = "phsr"
  /\ LET listed == SelectSeq(HandleOrder, LAMBDA h : devicePorts[h] = "occupied")
     IN /\ pinitList' = listed
        /\ ntools' = Len(listed)
        /\ pinitPc' = IF Len(listed) = 0 THEN "while" ELSE "pinit"
  /\ UNCHANGED <<errnum, vDriver, ledCall, vLocking, enableCall,
                 vAfterPinit, enqueued, vHistory>>
  /\ UNCHANGED <<vToolStatus, vStrays, vServers>>
\* Lines 664-674: PINIT for the next listed handle; errnum is its error.
PinitOne(pinitOkay) ==
  /\ pinitPc = "pinit"
  /\ LET portHandle == Head(pinitList)
     IN devicePorts' =
          IF pinitOkay
          THEN [h \in PortHandles |->
                  IF h = portHandle THEN "initialized"
                  ELSE IF h \in SecondChannel(portHandle) /\ devicePorts[h] = "free"
                  THEN "occupied" ELSE devicePorts[h]]
          ELSE devicePorts
  /\ errnum' = IF pinitOkay THEN 0 ELSE 1
  /\ pinitList' = Tail(pinitList)
  /\ pinitPc' = IF Len(pinitList) = 1 THEN "while" ELSE "pinit"
  /\ UNCHANGED <<ntools, vDriverButPorts, ledCall, vLocking, enableCall,
                 vAfterPinit, enqueued, vHistory>>
  /\ UNCHANGED <<vToolStatus, vStrays, vServers>>
\* A variant of LoopAgain: one pass only.
LoopOnce(n, e) == FALSE
\* Line 676: while (ntools > 0 && errnum == 0).
LoopAgain(n, e) == n > 0 /\ e = 0
PinitWhile ==
  /\ pinitPc = "while"
  /\ pinitPc' = IF LoopAgain(ntools, errnum) THEN "phsr" ELSE "done"
  /\ UNCHANGED <<pinitList, ntools, errnum, vDriver, ledCall, vLocking, enableCall,
                 vAfterPinit, enqueued, vHistory>>
  /\ UNCHANGED <<vToolStatus, vStrays, vServers>>
\* EnableToolPorts goes on; the next call starts the loop again.
PinitLeave ==
  /\ pinitPc = "done"
  /\ pinitPc' = "idle"
  /\ UNCHANGED <<pinitList, ntools, errnum, vDriver, ledCall, vLocking, enableCall,
                 vAfterPinit, enqueued, vHistory>>
  /\ UNCHANGED <<vToolStatus, vStrays, vServers>>

PinitLoop ==
  \/ PinitPHSR
  \/ \E pinitOkay \in BOOLEAN : PinitOne(pinitOkay)
  \/ PinitWhile
NextPinit ==
  \/ \E h \in PortHandles : PortOccupied(h)
  \/ PinitBegin
  \/ PinitLoop
  \/ PinitLeave
\* The thread in the loop keeps running.
SpecPinit == InitConstructed /\ [][NextPinit]_vars /\ WF_vars(PinitLoop)

\* C25: the port initialisation loop ends, for a device with finitely
\* many handles that takes a handle off the pending ones when its PINIT
\* succeeds; when it ends without a PINIT error no handle is pending, the
\* handles that a multi-channel tool gives out after an earlier PINIT
\* included.
C25_PinitLoopEndsWithNothingPending ==
  /\ [](pinitPc = "done" /\ errnum = 0 => PendingInit(devicePorts) = {})
  /\ (pinitPc = "phsr" ~> pinitPc = "done")
\* The loop has ended without error after it initialised a handle that
\* the device gave out only after the PINIT of another.
C25_Witness ==
  /\ pinitPc = "done"
  /\ errnum = 0
  /\ devicePorts[1] = "initialized"
  /\ devicePorts[5] = "initialized"

\* ------------------------------------------ the first frame after an idle period
\* This step is sender i pulling frames with a watermark that SenderIdle
\* reset: the watermark is 0 although a client that has left was sent a
\* frame (every frame is stamped 1 or later).
PullsAfterIdle(i) ==
  /\ sndPc[i] = "frames" /\ sndPc'[i] = "frame"
  /\ LastSentTrackedFrameTimestamp = 0
  /\ \E c \in ClientIds \ IgtlClients : FrameTimestamps(c) # <<>>

\* C26: after a period with no connected client, in which the watermark was
\* reset to zero, the first frame sent to the next client is the most
\* recent frame of the buffer, not an older one.
C26_FirstFrameAfterIdleIsMostRecent ==
  [][\A i \in ThreadSlots :
       PullsAfterIdle(i) => Head(trackedFrameList') = Last(buffer)]_vars

\* ------------------------------------------- InternalUpdate: frame numbers
\* What ndiGetTXTransform and ndiGetTXFrame return for the handles of the
\* tools in one tick.
TXFrames == [Tools -> [absent : BOOLEAN, frame : 0..MaxFrameIndex]]
\* Line 531: the tool's transform is there and its frame index is not 0.
SuppliesFrameIndex(tx) == ~tx.absent /\ tx.frame # 0
\* The loop over the tools, lines 474-566: a tool is published with its
\* frame index, or with the default when it supplies none, and a larger
\* frame index replaces LastFrameNumber (lines 531-540).
RECURSIVE PublishTools(_, _, _, _)
PublishTools(order, reply, defaultToolFrameNumber, st) ==
  IF order = <<>> THEN st
  ELSE LET t == Head(order)
           ndiFrameIndex == reply[t].frame
           toolFrameNumber == IF SuppliesFrameIndex(reply[t]) THEN ndiFrameIndex
                              ELSE defaultToolFrameNumber
           last == IF SuppliesFrameIndex(reply[t]) /\ ndiFrameIndex > st.LastFrameNumber
                   THEN ndiFrameIndex ELSE st.LastFrameNumber
       IN PublishTools(Tail(order), reply, defaultToolFrameNumber,
                       [LastFrameNumber |-> last,
                        published |-> [st.published EXCEPT ![t] = toolFrameNumber]])
\* A variant of UpdateFrameNumbers: LastFrameNumber is incremented only
\* when no tool supplies a frame index.
UpdateFrameNumbersWhenNoIndex(last, reply) ==
  PublishTools(ToolOrder, reply, last + 1,
               [LastFrameNumber |-> IF \E t \in Tools : SuppliesFrameIndex(reply[t])
                                    THEN last ELSE last + 1,
                published |-> [t \in Tools |-> 0]])
\* Lines 470-471 and the loop: LastFrameNumber++ comes first, in every tick.
UpdateFrameNumbers(last, reply) ==
  PublishTools(ToolOrder, reply, last + 1,
               [LastFrameNumber |-> last + 1, published |-> [t \in Tools |-> 0]])

\* The largest frame index the tools supply in a reply, 0 when none does.
LargestSupplied(reply) ==
  LET supplied == {reply[t].frame : t \in {u \in Tools : SuppliesFrameIndex(reply[u])}}
  IN IF supplied = {} THEN 0 ELSE SetMax(supplied)

\* One polling tick, as far as the frame numbers go.
InternalUpdateFrames(reply) ==
  /\ LastFrameNumber < MaxFrameNumber
  /\ LET out == UpdateFrameNumbers(LastFrameNumber, reply) IN
       /\ LastFrameNumber' = out.LastFrameNumber
       /\ lastTick' = [ticked |-> TRUE, reply |-> reply, published |-> out.published,
                       before |-> LastFrameNumber,
                       seen |-> Max(lastTick.seen, LargestSupplied(reply))]
  /\ UNCHANGED <<LastStraysPos, LastStraysStatus, straysPos, minMatchedIndex,
                 LastStraysPosBefore>>
  /\ UNCHANGED <<vToolStatus, vDriver, ledCall, vLocking, enableCall, vPinit,
                 LastStraysStatusBefore, enqueued, vHistory, vServers>>

NextFrameNumber == \E reply \in TXFrames : InternalUpdateFrames(reply)
SpecFrameNumber == InitConstructed /\ [][NextFrameNumber]_vars

\* C27 (as stated): after a polling tick a tool that reports a present,
\* non-zero frame index is published with that index and LastFrameNumber is
\* the largest frame index seen so far; LastFrameNumber goes up by one only
\* in a tick in which no tool supplies a frame index.
C27_LastFrameNumberIsLargestIndexSeen ==
  lastTick.ticked =>
    /\ \A t \in Tools : SuppliesFrameIndex(lastTick.reply[t])
                          => lastTick.published[t] = lastTick.reply[t].frame
    /\ IF LargestSupplied(lastTick.reply) = 0
       THEN LastFrameNumber = lastTick.before + 1
       ELSE LastFrameNumber = lastTick.seen

\* C27 (amended): after a polling tick a tool that reports a present,
\* non-zero frame index is published with that index and every other tool
\* with the previous LastFrameNumber plus one; LastFrameNumber is the larger
\* of the previous LastFrameNumber plus one and the largest frame index of
\* the tick, so it goes up in every tick and is never below the largest
\* frame index seen so far.
C27_LastFrameNumberGoesUpEveryTick ==
  lastTick.ticked =>
    /\ \A t \in Tools :
         lastTick.published[t] = IF SuppliesFrameIndex(lastTick.reply[t])
                                 THEN lastTick.reply[t].frame
                                 ELSE lastTick.before + 1
    /\ LastFrameNumber = Max(lastTick.before + 1, LargestSupplied(lastTick.reply))
    /\ LastFrameNumber > lastTick.before
    /\ LastFrameNumber >= lastTick.seen
\* A tick in which one tool supplied a frame index that was not above the
\* previous LastFrameNumber, and another tool supplied none.
C27_Witness ==
  /\ lastTick.ticked
  /\ LargestSupplied(lastTick.reply) \in 1..lastTick.before
  /\ \E t \in Tools : ~SuppliesFrameIndex(lastTick.reply[t])
  /\ LastFrameNumber = lastTick.before + 1

\* ------------------------------------------------ the leftover observations
\* In a step of InternalUpdateStrays: the observations no slot claimed, in
\* observation order, and the slots that were empty before, in slot order.
Leftovers ==
  SortedSeq({o \in ObservationIndices : \A k \in StraySlots : minMatchedIndex'[k] # o})
EmptySlots == SortedSeq({i \in StraySlots : LastStraysPos[i] = ZeroVector})
\* Leftover k is in the k-th empty slot, which is marked OK.
LeftoverStored(k) ==
  /\ k <= Len(EmptySlots)
  /\ LastStraysPos'[EmptySlots[k]] = straysPos'[Leftovers[k] + 1]
  /\ LastStraysStatus'[EmptySlots[k]] = "TOOL_OK"
\* No previously observed slot that ended without a match was changed.
ObservedSlotsNotOverwritten ==
  \A i \in ObservedSlots :
    minMatchedIndex'[i] = noMatchFlag => LastStraysPos'[i] = LastStraysPos[i]

FewStrayPoints == {<<0, 0, 100>>, <<100, 0, 100>>, <<1, 0, 100>>}
FewStrayObservations == UNION {[1..n -> FewStrayPoints] : n \in 1..2}
InternalUpdateFewStrays(obs) ==
  /\ LastFrameNumber < MaxLostUpdates
  /\ MatchAndUpdateStrays(obs)
  /\ LastStraysStatusBefore' = LastStraysStatus
NextStraysLost == \E obs \in FewStrayObservations : InternalUpdateFewStrays(obs)
SpecStraysLost == InitConstructed /\ [][NextStraysLost]_vars

\* Slot i ends this step without an observation: it has no match, and the
\* unclaimed observations have all gone to unmatched slots before it.
EndsWithout(i) ==
  /\ minMatchedIndex'[i] = noMatchFlag
  /\ Cardinality({k \in StraySlots : k < i /\ minMatchedIndex'[k] = noMatchFlag})
       >= Len(Leftovers)
\* Observation o is the nearest one to slot i, and slot i is nearer to it
\* than every other previously observed slot.
NearestToEachOther(i, o) ==
  /\ \A q \in ObservationIndices \ {o} : SlotToObservation(i, o) < SlotToObservation(i, q)
  /\ \A k \in ObservedSlots \ {i} : SlotToObservation(i, o) < SlotToObservation(k, o)

\* C29: a stray slot that ends a matcher run with no observation is marked
\* MISSING and keeps its stored position, the last-known one and not zero;
\* with that position it takes part in the distance matching of the next
\* frame: a MISSING slot is matched to the observation that is nearest to
\* its kept position when no other slot is as near to that observation.
C29_MissingSlotKeepsPosition ==
  [][\A i \in StraySlots :
       /\ EndsWithout(i)
            => /\ LastStraysStatus'[i] = "TOOL_MISSING"
               /\ LastStraysPos'[i] = LastStraysPos[i]
       /\ (LastStraysStatus[i] = "TOOL_MISSING" /\ i \in ObservedSlots)
            => \A o \in ObservationIndices :
                 NearestToEachOther(i, o)
                   => /\ minMatchedIndex'[i] = o
                      /\ LastStraysPos'[i] = straysPos'[o + 1]
                      /\ LastStraysStatus'[i] = "TOOL_OK"]_vars
\* Slot 2 lost its observation in the second frame, was MISSING at its
\* last-known position, and in the third frame was matched from there to
\* an observation that moved.
C29_Witness ==
  /\ LastFrameNumber = MaxLostUpdates
  /\ LastStraysStatusBefore[2] = "TOOL_MISSING"
  /\ LastStraysPosBefore[2] = <<0, 0, 100>>
  /\ minMatchedIndex[2] # noMatchFlag
  /\ LastStraysStatus[2] = "TOOL_OK"
  /\ LastStraysPos[2] = <<1, 0, 100>>

\* --------------------------------------------- who removes a client record
\* In this step the record of client c leaves the list, or its socket is
\* closed.
RemovedOrClosed(c) ==
  \/ c \in IgtlClients /\ c \notin IgtlClients'
  \/ ClientSocket[c] = "open" /\ ClientSocket'[c] # "open"
\* The sender disconnects c after a frame message or a keep-alive to it
\* failed (SendTrackedFrame, KeepAlive).
SendPathRemoves(c) ==
  /\ SenderErasing(c)
  /\ wire[c] # <<>> /\ SendFailed(Last(wire[c]))
\* StopOpenIGTLinkService disconnects c.
StopRemoves(c) == MainErasing(c) /\ serviceState = "stopping"

\* C30: a receiver thread never removes its client from the list and never
\* closes its socket: a short, empty or failed header read leaves the
\* thread at the loop head and changes nothing, also when the peer has
\* closed; a record is removed and its socket closed only in a step of the
\* send path (after a failed frame or keep-alive message) or of the stop of
\* the service, and no receiver thread moves in that step.  (A receiver
\* thread moves when its place changes after the acceptor has spawned it.)
C30_ReceiverNeverRemovesClient ==
  [][\A c \in ClientIds :
       /\ RemovedOrClosed(c) => /\ SendPathRemoves(c) \/ StopRemoves(c)
                                /\ rcvPc' = rcvPc
       /\ (rcvPc[c] # "none" /\ rcvPc'[c] # rcvPc[c])
            => /\ IgtlClients' = IgtlClients
               /\ ClientSocket' = ClientSocket]_vars
\* The peer of a client has closed and the keep-alive to it has failed; its
\* receiver thread is still in its loop, retrying the header read, and the
\* record is in the list with its socket open until the sender removes it.
C30_Witness ==
  \E c \in IgtlClients :
    /\ ~sockAlive[c]
    /\ rcvPc[c] = "loop" /\ DataReceiverActive[c].first
    /\ ClientSocket[c] = "open"
    /\ wire[c] # <<>> /\ SendFailed(Last(wire[c]))
    /\ SenderDisconnecting(c)

\* ------------------------------------------------- the message responses
\* GetPolyData message, lines 745-804: no file name ends the handling; a
\* file that was read is answered with POLYDATA, any other with
\* RTS_POLYDATA, queued next.  num is the length of the file name.
HandleGetPolyData(c) ==
  /\ rcvPc[c] = "body"
  /\ headerMsg[c].type = "GET_POLYDATA"
  /\ rcvPc' = [rcvPc EXCEPT ![c] = IF headerMsg[c].num = 0 THEN "loop" ELSE "queue"]
  /\ UNCHANGED <<vService, vMain, accPc, vRegistry, vRecord, ClientInfo,
                 MessageResponseQueue, LastSentTrackedFrameTimestamp, mutexHeld, vSender,
                 headerMsg, previousCommandIds, vProcessor, vCmdHistory, vChannel,
                 sockAlive, wire>>
  /\ UNCHANGED vRest
\* QueueMessageResponsePush, with the message noted in the client's history.
QueueMessageResponsePushNoted(c) ==
  /\ PushMessageResponse(c)
  /\ enqueued' = [enqueued EXCEPT ![c] = Append(@, ResponseMessage(headerMsg[c]))]
  /\ UNCHANGED <<vInstances, vToolStatus, vStrays, vDriver, ledCall, vLocking, enableCall,
                 vPinit, vAfterPinit, vHistory>>

\* The messages a client sends that are answered through the queue.
ResponseInputs(c) ==
  {NoHeader} \cup
    (IF oddSent[c] < MaxOddMsgs
     THEN {PlainHeader("STT_TDATA", TRUE, 1), PlainHeader("STP_TDATA", TRUE, 0)}
            \cup {PlainHeader("GET_POLYDATA", ok, n) : ok \in BOOLEAN, n \in {0, 1}}
     ELSE {})
NextResponses ==
  \/ \E c \in ClientIds : \E m \in ResponseInputs(c) : ReceiverLoop(c, m)
  \/ \E c \in ClientIds : ReceiverLockForVersion(c)
  \/ \E c \in ClientIds : ReceiverSetVersion(c)
  \/ \E c \in ClientIds : HandleStartTracking(c)
  \/ \E c \in ClientIds : HandleStopTracking(c)
  \/ \E c \in ClientIds : HandleGetPolyData(c)
  \/ \E c \in ClientIds : QueueMessageResponseLockClients(c)
  \/ \E c \in ClientIds : QueueMessageResponseFind(c)
  \/ \E c \in ClientIds : QueueMessageResponseLockQueue(c)
  \/ \E c \in ClientIds : QueueMessageResponsePushNoted(c)
  \/ SenderLoop(1)
  \/ SendMessageResponsesLockQueue(1)
  \/ SendMessageResponsesLockClients(1)
  \/ SendMessageResponsesEntry(1)
  \/ SendMessageResponsesClear(1)
  \/ SendCommandResponsesPop(1)
  \/ \E n \in 1..MaxNumberOfIgtlMessagesToSend : GetFrames(1, n)
  \/ NoNewFrames(1)
SpecResponses == InitServing(MaxClients) /\ [][NextResponses]_vars

\* The message responses handed to the socket of client c, in the order
\* sent.
ResponseKinds == {"RTS_TDATA", "POLYDATA", "RTS_POLYDATA"}
ResponsesSent(c) ==
  LET sent == SelectSeq(wire[c], LAMBDA e : e.kind \in ResponseKinds)
  IN  [k \in 1..Len(sent) |-> sent[k].kind]
\* The sender is in a drain and has gone past the entry of client c.
DrainPassed(c) ==
  \E i \in ThreadSlots :
    \/ sndPc[i] \in {"responses_entry", "responses_send"} /\ c < smrIt
    \/ sndPc[i] = "responses_end"
\* The messages queued for c that the next or the running drain has to send.
StillQueued(c) == IF DrainPassed(c) THEN <<>> ELSE MessageResponseQueue[c]

\* C31: the messages queued with QueueMessageResponseForClient for a
\* client that stays registered are each sent exactly once on its socket,
\* in the order they were queued: what was sent, followed by what is still
\* queued, is what was queued, also when a receiver thread queues while the
\* sender thread drains and clears the queue.
C31_ResponsesSentOnceInOrder ==
  \A c \in IgtlClients : ResponsesSent(c) \o StillQueued(c) = enqueued[c]
\* A client has been sent a response; its receiver thread has a different
\* one ready and waits for the queue, which the sender holds in the middle
\* of a drain.
C31_Witness ==
  \E c \in IgtlClients :
    /\ Len(ResponsesSent(c)) = 1
    /\ ResponseMessage(headerMsg[c]) # ResponsesSent(c)[1]
    /\ rcvPc[c] = "queue_found"
    /\ sndPc[1] \in {"responses_send", "responses_end"}
    /\ QueueMutex \in Range(mutexHeld[SndThread(1)])

\* ------------------------------------------------ one observation, one slot
\* C32: after the stray matcher has run for a frame, no observation index
\* is assigned to more than one slot, also when two previously observed
\* slots are at the same distance from the same observation.
C32_NoObservationAssignedTwice ==
  minMatchedIndex # <<>>
    => \A i, k \in StraySlots :
         (i # k /\ minMatchedIndex[i] # noMatchFlag) => minMatchedIndex[i] # minMatchedIndex[k]

\* ------------------------------------------------ a frame without strays
\* The frames of SpecStraysLost, and frames in which no stray is seen.
NextStraysGone ==
  \E obs \in FewStrayObservations \cup {<<>>} : InternalUpdateFewStrays(obs)
SpecStraysGone == InitConstructed /\ [][NextStraysGone]_vars

\* C33: a stray slot is reported OK (lines 548-551: the status published
\* is LastStraysStatus) only if an observation was assigned to it in the
\* same polling tick; in a tick in which the tracker reports no stray every
\* slot is reported MISSING.
C33_OkOnlyWhenObservedInTick ==
  LastFrameNumber > 0
    => \A i \in StraySlots :
         LastStraysStatus[i] = "TOOL_OK"
           => \E o \in 1..Len(straysPos) : LastStraysPos[i] = straysPos[o]

\* ------------------------------------- a record and its receiver thread
\* The receiver thread of client c has been spawned and has not returned:
\* it has still to read or write the record it was given.
ReceiverAlive(c) == rcvPc[c] \notin {"none", "done"}

\* C34: DisconnectClient never erases a client record while the receiver
\* thread of that client is running or has been spawned and has not yet
\* set its acknowledge flag: no receiver thread is left with a record that
\* is no longer in the list.
C34_RecordErasedAfterReceiverReturned ==
  \A c \in ClientIds : ReceiverAlive(c) => c \in IgtlClients

\* ------------------------------------------- stopping a running service
\* The service with its clients connected; each sends up to MaxOddMsgs
\* StartTrackingData messages, with bodies that unpack or not, and the
\* application calls Stop.  Every thread that can take a step eventually
\* takes one: the socket reads time out and the sleeps end.
MainSteps ==
  \/ StopRequest
  \/ StopWaitAcceptor
  \/ StopCollectClients
  \/ StopDisconnectRequest
  \/ StopDisconnectWait
  \/ StopDisconnectErase
  \/ StopReturn
AcceptorSteps ==
  \/ AcceptorLoop(1, FALSE)
  \/ AcceptorExit(1)
  \/ AcceptorAcknowledge(1)
ReceiverSteps(c) ==
  \/ \E m \in TrackingInputs(c) : ReceiverLoop(c, m)
  \/ ReceiverLockForVersion(c)
  \/ ReceiverSetVersion(c)
  \/ HandleStartTracking(c)
  \/ QueueMessageResponseLockClients(c)
  \/ QueueMessageResponseFind(c)
  \/ QueueMessageResponseLockQueue(c)
  \/ QueueMessageResponsePush(c)
  \/ ReceiverExit(c)
  \/ ReceiverAcknowledge(c)
NextStopping ==
  \/ MainSteps
  \/ AcceptorSteps
  \/ \E c \in ClientIds : ReceiverSteps(c)
SpecStopping ==
  /\ InitServing(MaxClients)
  /\ [][NextStopping]_vars
  /\ WF_vars(MainSteps)
  /\ WF_vars(AcceptorSteps)
  /\ \A c \in ClientIds : WF_vars(ReceiverSteps(c))

\* C35: DisconnectClient eventually returns for every registered client,
\* and therefore StopOpenIGTLinkService eventually returns, whatever the
\* clients have sent before.
C35_StopEventuallyReturns ==
  (serviceState = "stopping") ~> (serviceState = "stopped")

\* ------------------------------------------------ sends to one socket
\* GetStatus message, lines 593-601: the body is skipped, the STATUS reply
\* packed and handed to the client socket's Send by the receiver thread
\* itself; no guard is taken.  Send writes until the whole buffer is out.
HandleGetStatus(c) ==
  /\ rcvPc[c] = "body"
  /\ headerMsg[c].type = "GET_STATUS"
  /\ rcvPc' = [rcvPc EXCEPT ![c] = "status_send"]
  /\ UNCHANGED <<vService, vMain, accPc, vRegistry, vRecord, ClientInfo,
                 MessageResponseQueue, LastSentTrackedFrameTimestamp, mutexHeld, vSender,
                 headerMsg, previousCommandIds, vProcessor, vCmdHistory, vChannel,
                 sockAlive, wire>>
  /\ UNCHANGED vRest

\* Line 601: Send returns, the reply is out; back to the loop head.
GetStatusSent(c) ==
  /\ rcvPc[c] = "status_send"
  /\ wire' = [wire EXCEPT ![c] = Append(@, WireEntry("STATUS", 0, SendResult(c)))]
  /\ rcvPc' = [rcvPc EXCEPT ![c] = "loop"]
  /\ UNCHANGED <<vService, vMain, accPc, vRegistry, vRecord, ClientInfo,
                 MessageResponseQueue, LastSentTrackedFrameTimestamp, mutexHeld, vSender,
                 headerMsg, previousCommandIds, vProcessor, vCmdHistory, vChannel,
                 sockAlive>>
  /\ UNCHANGED vRest

\* The service with its clients connected; each sends up to MaxOddMsgs
\* StartTrackingData and GetStatus messages while the sender delivers the
\* queued answers.
StatusInputs(c) ==
  {NoHeader} \cup
    (IF oddSent[c] < MaxOddMsgs
     THEN {PlainHeader("STT_TDATA", TRUE, 1), PlainHeader("GET_STATUS", TRUE, 0)}
     ELSE {})
NextSends ==
  \/ \E c \in ClientIds : \E m \in StatusInputs(c) : ReceiverLoop(c, m)
  \/ \E c \in ClientIds : ReceiverLockForVersion(c)
  \/ \E c \in ClientIds : ReceiverSetVersion(c)
  \/ \E c \in ClientIds : HandleStartTracking(c)
  \/ \E c \in ClientIds : HandleGetStatus(c)
  \/ \E c \in ClientIds : GetStatusSent(c)
  \/ \E c \in ClientIds : QueueMessageResponseLockClients(c)
  \/ \E c \in ClientIds : QueueMessageResponseFind(c)
  \/ \E c \in ClientIds : QueueMessageResponseLockQueue(c)
  \/ \E c \in ClientIds : QueueMessageResponsePush(c)
  \/ SenderLoop(1)
  \/ SendMessageResponsesLockQueue(1)
  \/ SendMessageResponsesLockClients(1)
  \/ SendMessageResponsesEntry(1)
  \/ SendMessageResponsesClear(1)
  \/ SendCommandResponsesPop(1)
  \/ \E n \in 1..MaxNumberOfIgtlMessagesToSend : GetFrames(1, n)
  \/ NoNewFrames(1)
SpecSends == InitServing(MaxClients) /\ [][NextSends]_vars

\* C36: at no time are two threads sending on the same client socket:
\* while the Send of one thread to a client is under way, no other thread
\* puts a message on that client's socket.
C36_OneSendAtATime ==
  [][\A c \in ClientIds :
       (rcvPc[c] = "status_send" /\ rcvPc'[c] = "status_send") => wire'[c] = wire[c]]_vars

\* ------------------------------------ tracker commands and the handle
\* The driver calls with the tracker command each sends noted together
\* with the handle it is sent to.  A call on a null handle is made like any
\* other: the code tests the handle only in InternalStopRecording (line
\* 392); what ndicapi answers on a null handle is open.
DeviceCall(command) == [command |-> command, handle |-> Device]
\* Lines 374-375: TSTART, unless the device is tracking already.
InternalStartRecordingNoted(tstartOkay) ==
  /\ InternalStartRecordingSteps(tstartOkay)
  /\ deviceCall' = IF IsDeviceTracking = 1 THEN deviceCall ELSE DeviceCall("TSTART")
\* Lines 397-398: TSTOP on a handle that is not null.
InternalStopRecordingNoted ==
  /\ InternalStopRecordingSteps
  /\ deviceCall' = IF Device = 0 THEN deviceCall ELSE DeviceCall("TSTOP")
\* Lines 353-354: COMM:00000 before the handle is closed.
InternalDisconnectNoted ==
  /\ InternalDisconnectSteps
  /\ deviceCall' = DeviceCall("COMM")
\* InternalUpdate, lines 411-428: TX when the device is tracking.
InternalUpdateNoted ==
  /\ IsDeviceTracking = 1
  /\ deviceCall' = DeviceCall("TX")
  /\ UNCHANGED <<vToolStatus, vStrays, vDriver, vCallsButHistory, vServers>>

NextDriverCalls ==
  \/ \E openOkay, initOkay \in BOOLEAN : InternalConnect(openOkay, initOkay)
  \/ \E tstartOkay \in BOOLEAN : InternalStartRecordingNoted(tstartOkay)
  \/ InternalStopRecordingNoted
  \/ InternalDisconnectNoted
  \/ InternalUpdateNoted
  \/ \E t \in WiredTools : PlugTool(t)
SpecDriverCalls == InitConstructed /\ [][NextDriverCalls]_vars

\* C37: after any sequence of InternalConnect, InternalStartRecording,
\* InternalStopRecording, InternalDisconnect and InternalUpdate calls, a
\* tracking driver has an open device handle, and no tracker command is
\* issued on a null handle.
C37_CommandsOnlyOnOpenHandle ==
  /\ IsDeviceTracking = 1 => Device # 0
  /\ deviceCall.command # "none" => deviceCall.handle # 0

\* ------------------------------------------- port handles while tracking
\* The descriptors PHRQ is sent for: tools without a wired port.
WirelessDescriptors == {t \in Tools : WiredPortNumber(t) < 0}
\* The handles the device has given out on PHRQ and not taken back.
RequestedHandles == {h \in PhrqHandles : devicePorts[h] # "free"}

\* C38: re-entering EnableToolPorts within one session (a wired tool is
\* plugged in during tracking) requests no new handle for a wireless
\* descriptor that holds a handle above 0 and leaves the handle of every
\* assigned descriptor as it is; the handles requested from the tracker
\* are never more than the wireless descriptors.
C38_ReentryKeepsPortHandles ==
  [][/\ IsDeviceTracking = 1
          => \A t \in Tools :
               NdiToolDescriptors[t].PortHandle > 0
                 => NdiToolDescriptors'[t].PortHandle = NdiToolDescriptors[t].PortHandle
     /\ Cardinality(RequestedHandles') <= Cardinality(WirelessDescriptors)]_vars

\* ------------------------------------------------ Probe and the handle
\* A step of Probe, whatever ndiProbe and ndiOpen answer.
ProbeCall == \E probeOkay, openOkay \in BOOLEAN : Probe(probeOkay, openOkay)

\* C39: Probe leaves the connection of the driver as it is: when the
\* device handle was open before Probe was called, connected and tracking
\* or not, the member Device holds the same open handle when Probe has
\* returned.
C39_ProbeKeepsOpenHandle ==
  [][(ProbeCall /\ Connected /\ Device # 0)
        => (Device' = Device /\ Device' \in openHandles')]_vars

\* ------------------------------------- the frame numbers of one tool
\* In a step of InternalUpdateFrames after an earlier tick: the frame
\* counter of the device has advanced, every frame index of this tick is
\* above every frame index the device reported before.
DeviceCounterAdvanced ==
  \A t \in Tools :
    SuppliesFrameIndex(lastTick'.reply[t]) => lastTick'.reply[t].frame > lastTick.seen
\* Tool t supplied a frame index in one of the two ticks and none in the
\* other.
Alternates(t) ==
  SuppliesFrameIndex(lastTick.reply[t]) # SuppliesFrameIndex(lastTick'.reply[t])

\* C40: for each tool, the frame number passed to the tool buffer in a
\* polling tick is strictly greater than the one passed for that tool in
\* the previous tick, when the tool goes from reporting a device frame
\* index to being absent or back.
C40_ToolFrameNumberGoesUp ==
  [][(lastTick.ticked /\ DeviceCounterAdvanced)
        => \A t \in Tools :
             Alternates(t) => lastTick'.published[t] > lastTick.published[t]]_vars

====
